---- MODULE Spec2Model ----
(***************************************************************************)
(* A model of the vrrp-simple Virtual Router: the INIT/BACKUP/MASTER state *)
(* machine (StateMachine), the VirtualRouter life cycle (Start, Stop, the  *)
(* send and receive workers) and the medium that carries advertisements    *)
(* between routers.                                                         *)
(*                                                                         *)
(* The specifications share the state and the operators:                   *)
(*   Spec      one router, frames of any shape arrive on its socket and    *)
(*             its timers may fire at any moment (no timing assumption);   *)
(*   StopSpec  Spec with weak fairness on the steps of Stop, of the        *)
(*             workers and of the driver;                                  *)
(*   PairSpec  two routers on one segment exchanging their own             *)
(*             advertisements, timers counted in milliseconds, handlers    *)
(*             taking no time, weak fairness on every step;                *)
(*   BuildSpec a Config through NewVirtualRouter, Start and the first      *)
(*             transitions of its state machine;                           *)
(*   IPMgrSpec one or two callers of IPManager on one interface;           *)
(*   CodecSpec a Packet through Marshal and Unmarshal.                     *)
(***************************************************************************)
EXTENDS Integers, Sequences, FiniteSets, TLC

VARIABLES
    sm,      \* sm[r]: the StateMachine of router r (a record, see NewStateMachine)
    vr,      \* vr[r]: the VirtualRouter of router r (running flag, workers, Stop position)
    sock,    \* sock[r]: frames waiting in the raw socket of router r
    last,    \* last[r]: the last step of the state-machine driver of r (history)
    env,     \* the load the environment puts on a router (frames, backlog, socket buffer)
    ipm,     \* an interface and the calls of IPManager in progress on it
    build,   \* a Config and what NewVirtualRouter and the first steps make of it
    wire     \* a Packet, the bytes Marshal makes of it and what Unmarshal reads back

vars == <<sm, vr, sock, last, env, ipm, build, wire>>

----------------------------------------------------------------------------
(* Program constants *)

StateInit == "INIT"
Backup    == "BACKUP"
Master    == "MASTER"

EventStartup              == "EventStartup"
EventShutdown             == "EventShutdown"
EventMasterDown           == "EventMasterDown"
EventPriorityZeroReceived == "EventPriorityZeroReceived"

VRRPv2            == 2
TypeAdvertisement == 1
ChanCap           == 10      \* capacity of sendCh, recvCh and eventCh
Second            == 1000    \* time.Second, in milliseconds
OwnerPriority     == 255     \* the priority that forces Master on startup

----------------------------------------------------------------------------
(* Configurations and frames the model draws from *)

OwnVRID     == 10
ForeignVRID == 20

VirtualIPs == << <<10, 0, 0, 100>> >>

\* source IPv4 of the interface of each router
SourceIPOf(r) == IF r = 1 THEN <<10, 99, 0, 10>> ELSE <<10, 99, 0, 11>>

\* priorities a single router is configured with
Priorities == {100, 255}

\* (vrid, priority, source) of the frames the environment sends to a single
\* router: for its own VRID a priority-0 frame, a low one, and frames at the
\* configured priorities from a lower and from a greater source address; for
\* a foreign VRID the two extreme priorities
LowerSrc   == <<10, 99, 0, 9>>
GreaterSrc == <<10, 99, 0, 11>>
FrameShapes ==
    { <<OwnVRID, 0, GreaterSrc>>, <<OwnVRID, 50, GreaterSrc>> }
    \cup { <<OwnVRID, p, s>> : p \in Priorities, s \in {LowerSrc, GreaterSrc} }
    \cup { <<ForeignVRID, 0, GreaterSrc>>, <<ForeignVRID, 255, GreaterSrc>> }

\* priorities of the two routers of a pair
PairPriorities == {100, 200, 255}

\* delays between the start of the first and of the second router of a pair
StartDelays == {1000}

MaxInject  == 1   \* frames the environment injects in one behaviour
MaxSock    == 1   \* frames the socket buffer of a single router holds
MaxBacklog == 2   \* items in the queues of a router when a new frame or timer fire comes
PairSock   == 4   \* frames the socket buffer of a router of a pair holds

----------------------------------------------------------------------------
(* Timers.  A time.Timer is nil, armed (left ms to go), fired (its value    *)
(* waits in the channel C) or drained (the value was received; it never    *)
(* fires again).  A time.Ticker is nil or on; tick says that a tick waits   *)
(* in its channel of capacity 1.                                           *)

NilTimer  == [st |-> "nil", left |-> 0]
NilTicker == [st |-> "nil", left |-> 0, tick |-> FALSE]

NewTimer(d)  == [st |-> "armed", left |-> d]
NewTicker(d) == [st |-> "on", left |-> d, tick |-> FALSE]

----------------------------------------------------------------------------
(* Packet *)

\* the values of a uint8, the type of CountIPAddrs
Uint8Values == 256

NewPacket(version, vrid, priority, ips, src) ==
    [ version  |-> version,
      type     |-> TypeAdvertisement,
      vrid     |-> vrid,
      priority |-> priority,
      count    |-> Len(ips) % Uint8Values,    \* uint8(len(ips))
      ips      |-> ips,
      advInt   |-> 1,
      src      |-> src ]   \* IPv4 header source of the frame; not a field of Packet

\* byte-wise lexicographic comparison of two IPv4 addresses (bytes.Compare)
RECURSIVE BytesCompare(_, _)
BytesCompare(a, b) ==
    IF a = <<>> /\ b = <<>> THEN 0
    ELSE IF a = <<>> THEN -1
    ELSE IF b = <<>> THEN 1
    ELSE IF Head(a) < Head(b) THEN -1
    ELSE IF Head(a) > Head(b) THEN 1
    ELSE BytesCompare(Tail(a), Tail(b))

----------------------------------------------------------------------------
(* StateMachine *)

calculateMasterDownInterval(priority, advertisementInterval) ==
    3 * advertisementInterval + (256 - priority) * (advertisementInterval \div 256)

NewStateMachine(vrid, priority, ips, srcIP, bound) ==
    [ state                 |-> StateInit,
      vrid                  |-> vrid,
      priority              |-> priority,
      advertisementInterval |-> Second,
      masterDownInterval    |-> calculateMasterDownInterval(priority, Second),
      virtualIPs            |-> ips,
      masterDownTimer       |-> NilTimer,
      advertTimer           |-> NilTicker,
      sendCh                |-> <<>>,
      recvCh                |-> <<>>,
      eventCh               |-> <<>>,
      stopCh                |-> "open",
      run                   |-> "none",    \* the goroutine of run: none, select, blocked, exited
      notified              |-> <<>>,      \* (old, new) of each call of onStateChange by the handler in progress
      srcIP                 |-> srcIP,     \* source IPv4 of the interface (Network.sourceIP)
      bound                 |-> bound ]    \* addresses this instance has on the interface

\* addIP that puts the address on the interface
addIP_binds(m, ip) == [m |-> [m EXCEPT !.bound = @ \cup {ip}], err |-> FALSE]

\* the stub always fails: nothing is added to the interface
addIP(m, ip) == [m |-> m, err |-> TRUE]

\* the stub always fails: nothing is removed from the interface
delIP(m, ip) == [m |-> m, err |-> TRUE]

RECURSIVE acquireFrom(_, _)
\* the loop over the addresses, in their order; the list is walked by
\* halves so that a long list is evaluated at a small depth
acquireFrom(m, ips) ==
    IF ips = <<>> THEN m
    ELSE IF Len(ips) = 1 THEN addIP(m, ips[1]).m    \* the error is logged
    ELSE LET h == Len(ips) \div 2
             first == acquireFrom(m, SubSeq(ips, 1, h))
         IN  \* the first half is done before the second is entered, and the
             \* loop goes on whatever it did
             IF first = m
             THEN acquireFrom(m, SubSeq(ips, h + 1, Len(ips)))
             ELSE acquireFrom(first, SubSeq(ips, h + 1, Len(ips)))

acquireVirtualIPs(m) == acquireFrom(m, m.virtualIPs)

RECURSIVE releaseFrom(_, _)
releaseFrom(m, ips) ==
    IF ips = <<>> THEN m
    ELSE IF Len(ips) = 1 THEN delIP(m, ips[1]).m    \* the error is logged
    ELSE LET h == Len(ips) \div 2
             first == releaseFrom(m, SubSeq(ips, 1, h))
         IN  \* the first half is done before the second is entered, and the
             \* loop goes on whatever it did
             IF first = m
             THEN releaseFrom(m, SubSeq(ips, h + 1, Len(ips)))
             ELSE releaseFrom(first, SubSeq(ips, h + 1, Len(ips)))

releaseVirtualIPs(m) == releaseFrom(m, m.virtualIPs)

\* stopMasterDownTimer that leaves the timer as it is
stopMasterDownTimer_keeps(m) == m

stopMasterDownTimer(m) ==
    IF m.masterDownTimer.st # "nil" THEN [m EXCEPT !.masterDownTimer = NilTimer] ELSE m

startMasterDownTimer(m) ==
    [stopMasterDownTimer(m) EXCEPT !.masterDownTimer = NewTimer(m.masterDownInterval)]

resetMasterDownTimer(m) ==
    [stopMasterDownTimer(m) EXCEPT !.masterDownTimer = NewTimer(m.masterDownInterval)]

stopAdvertTimer(m) ==
    IF m.advertTimer.st # "nil" THEN [m EXCEPT !.advertTimer = NilTicker] ELSE m

startAdvertTimer(m) ==
    [stopAdvertTimer(m) EXCEPT !.advertTimer = NewTicker(m.advertisementInterval)]

\* non-blocking send on sendCh: a full channel drops the advertisement
sendAdvertisement(m) ==
    LET pkt == NewPacket(VRRPv2, m.vrid, m.priority, m.virtualIPs, m.srcIP)
    IN  IF Len(m.sendCh) < ChanCap
        THEN [m EXCEPT !.sendCh = Append(@, pkt)]
        ELSE m

\* VirtualRouter.onStateChange only logs; the call is noted with its arguments
onStateChange(m, old, new) == [m EXCEPT !.notified = Append(@, <<old, new>>)]

\* a tie-break that the sender always wins
compareSourceIP_senderWins(m, pkt) == 1

\* the stub of the tie-break: no comparison is made
compareSourceIP(m, pkt) == 0

\* transition that leaves the advertisement ticker running when Master is left
transition_keepsTicker(m, newState) ==
    IF m.state = newState THEN m
    ELSE
      LET left == CASE m.state = Master -> releaseVirtualIPs(m)
                    [] m.state = Backup -> stopMasterDownTimer(m)
                    [] OTHER            -> m
          set  == [left EXCEPT !.state = newState]
          ent  == CASE newState = Master ->
                         startAdvertTimer(sendAdvertisement(acquireVirtualIPs(set)))
                    [] newState = Backup -> startMasterDownTimer(set)
                    [] OTHER ->
                         releaseVirtualIPs(stopMasterDownTimer(stopAdvertTimer(set)))
      IN  onStateChange(ent, m.state, newState)

\* transition without the early return: the observer hears of a request for
\* the current state as well
transition_notifiesAlways(m, newState) ==
    IF m.state = newState THEN onStateChange(m, m.state, newState)
    ELSE
      LET left == CASE m.state = Master -> releaseVirtualIPs(stopAdvertTimer(m))
                    [] m.state = Backup -> stopMasterDownTimer(m)
                    [] OTHER            -> m
          set  == [left EXCEPT !.state = newState]
          ent  == CASE newState = Master ->
                         startAdvertTimer(sendAdvertisement(acquireVirtualIPs(set)))
                    [] newState = Backup -> startMasterDownTimer(set)
                    [] OTHER ->
                         releaseVirtualIPs(stopMasterDownTimer(stopAdvertTimer(set)))
      IN  onStateChange(ent, m.state, newState)

\* transition that gives up when an address cannot be added or removed
transition_abortsOnError(m, newState) ==
    IF m.state = newState THEN m
    ELSE IF \/ \E i \in DOMAIN m.virtualIPs : addIP(m, m.virtualIPs[i]).err
            \/ \E i \in DOMAIN m.virtualIPs : delIP(m, m.virtualIPs[i]).err
    THEN m
    ELSE
      LET left == CASE m.state = Master -> releaseVirtualIPs(stopAdvertTimer(m))
                    [] m.state = Backup -> stopMasterDownTimer(m)
                    [] OTHER            -> m
          set  == [left EXCEPT !.state = newState]
          ent  == CASE newState = Master ->
                         startAdvertTimer(sendAdvertisement(acquireVirtualIPs(set)))
                    [] newState = Backup -> startMasterDownTimer(set)
                    [] OTHER ->
                         releaseVirtualIPs(stopMasterDownTimer(stopAdvertTimer(set)))
      IN  onStateChange(ent, m.state, newState)

transition(m, newState) ==
    IF m.state = newState THEN m
    ELSE
      LET left == CASE m.state = Master -> releaseVirtualIPs(stopAdvertTimer(m))
                    [] m.state = Backup -> stopMasterDownTimer(m)
                    [] OTHER            -> m
          set  == [left EXCEPT !.state = newState]
          ent  == CASE newState = Master ->
                         startAdvertTimer(sendAdvertisement(acquireVirtualIPs(set)))
                    [] newState = Backup -> startMasterDownTimer(set)
                    [] OTHER ->
                         releaseVirtualIPs(stopMasterDownTimer(stopAdvertTimer(set)))
      IN  onStateChange(ent, m.state, newState)

\* a blocking send on eventCh made by the driver itself: when the channel is
\* full the driver waits for a receiver, and the only receiver is the driver
eventSend(m, event) ==
    IF Len(m.eventCh) < ChanCap
    THEN [m EXCEPT !.eventCh = Append(@, event)]
    ELSE [m EXCEPT !.run = "blocked"]

\* handleEvent that drops the master-down event
handleEvent_ignoresMasterDown(m, event) ==
    CASE event = EventStartup ->
           IF m.priority = OwnerPriority THEN transition(m, Master)
                                         ELSE transition(m, Backup)
      [] event = EventShutdown -> transition(m, StateInit)
      [] event = EventPriorityZeroReceived ->
           IF m.state = Master THEN sendAdvertisement(m) ELSE m
      [] OTHER -> m

\* handleEvent without the address-owner shortcut
handleEvent_noOwner(m, event) ==
    CASE event = EventStartup -> transition(m, Backup)
      [] event = EventShutdown -> transition(m, StateInit)
      [] event = EventMasterDown ->
           IF m.state = Backup THEN transition(m, Master) ELSE m
      [] event = EventPriorityZeroReceived ->
           IF m.state = Master THEN sendAdvertisement(m) ELSE m
      [] OTHER -> m

\* handleEvent in which a Backup takes over as soon as the Master resigns
handleEvent_promotesOnPriorityZero(m, event) ==
    CASE event = EventStartup ->
           IF m.priority = OwnerPriority THEN transition(m, Master)
                                         ELSE transition(m, Backup)
      [] event = EventShutdown -> transition(m, StateInit)
      [] event = EventMasterDown ->
           IF m.state = Backup THEN transition(m, Master) ELSE m
      [] event = EventPriorityZeroReceived ->
           IF m.state = Master THEN sendAdvertisement(m)
           ELSE IF m.state = Backup THEN transition(m, Master)
           ELSE m
      [] OTHER -> m

\* handleEvent that leaves a priority-0 advertisement unanswered
handleEvent_ignoresPriorityZero(m, event) ==
    CASE event = EventStartup ->
           IF m.priority = OwnerPriority THEN transition(m, Master)
                                         ELSE transition(m, Backup)
      [] event = EventShutdown -> transition(m, StateInit)
      [] event = EventMasterDown ->
           IF m.state = Backup THEN transition(m, Master) ELSE m
      [] OTHER -> m

\* handleEvent that answers a priority-0 advertisement in any state
handleEvent_advertisesAlways(m, event) ==
    CASE event = EventStartup ->
           IF m.priority = OwnerPriority THEN transition(m, Master)
                                         ELSE transition(m, Backup)
      [] event = EventShutdown -> transition(m, StateInit)
      [] event = EventMasterDown ->
           IF m.state = Backup THEN transition(m, Master) ELSE m
      [] event = EventPriorityZeroReceived -> sendAdvertisement(m)
      [] OTHER -> m

handleEvent(m, event) ==
    CASE event = EventStartup ->
           IF m.priority = OwnerPriority THEN transition(m, Master)
                                         ELSE transition(m, Backup)
      [] event = EventShutdown -> transition(m, StateInit)
      [] event = EventMasterDown ->
           IF m.state = Backup THEN transition(m, Master) ELSE m
      [] event = EventPriorityZeroReceived ->
           IF m.state = Master THEN sendAdvertisement(m) ELSE m
      [] OTHER -> m

\* handlePacket without the check of the VRID
handlePacket_anyVRID(m, pkt) ==
    IF pkt.priority = 0 THEN eventSend(m, EventPriorityZeroReceived)
    ELSE IF m.state = Backup THEN
        IF pkt.priority >= m.priority THEN resetMasterDownTimer(m) ELSE m
    ELSE IF m.state = Master THEN
        IF \/ pkt.priority > m.priority
           \/ (pkt.priority = m.priority /\ compareSourceIP(m, pkt) > 0)
        THEN transition(m, Backup)
        ELSE m
    ELSE m

\* handlePacket with a Master that never yields
handlePacket_keepsMaster(m, pkt) ==
    IF pkt.vrid # m.vrid THEN m
    ELSE IF pkt.priority = 0 THEN eventSend(m, EventPriorityZeroReceived)
    ELSE IF m.state = Backup THEN
        IF pkt.priority >= m.priority THEN resetMasterDownTimer(m) ELSE m
    ELSE m

\* handlePacket with a Backup that rearms its timer on a priority-0
\* advertisement as on any other
handlePacket_resetsOnPriorityZero(m, pkt) ==
    IF pkt.vrid # m.vrid THEN m
    ELSE IF pkt.priority = 0 THEN
        eventSend(IF m.state = Backup THEN resetMasterDownTimer(m) ELSE m,
                  EventPriorityZeroReceived)
    ELSE IF m.state = Backup THEN
        IF pkt.priority >= m.priority THEN resetMasterDownTimer(m) ELSE m
    ELSE IF m.state = Master THEN
        IF \/ pkt.priority > m.priority
           \/ (pkt.priority = m.priority /\ compareSourceIP(m, pkt) > 0)
        THEN transition(m, Backup)
        ELSE m
    ELSE m

\* handlePacket with a Master that yields to every advertisement of its VRID
handlePacket_yieldsToAny(m, pkt) ==
    IF pkt.vrid # m.vrid THEN m
    ELSE IF pkt.priority = 0 THEN eventSend(m, EventPriorityZeroReceived)
    ELSE IF m.state = Backup THEN
        IF pkt.priority >= m.priority THEN resetMasterDownTimer(m) ELSE m
    ELSE IF m.state = Master THEN transition(m, Backup)
    ELSE m

\* handlePacket with a Master that yields to an equal priority
handlePacket_yieldsOnTie(m, pkt) ==
    IF pkt.vrid # m.vrid THEN m
    ELSE IF pkt.priority = 0 THEN eventSend(m, EventPriorityZeroReceived)
    ELSE IF m.state = Backup THEN
        IF pkt.priority >= m.priority THEN resetMasterDownTimer(m) ELSE m
    ELSE IF m.state = Master THEN
        IF pkt.priority >= m.priority THEN transition(m, Backup) ELSE m
    ELSE m

\* handlePacket with a Backup that rearms its timer on every advertisement
handlePacket_resetsOnLower(m, pkt) ==
    IF pkt.vrid # m.vrid THEN m
    ELSE IF pkt.priority = 0 THEN eventSend(m, EventPriorityZeroReceived)
    ELSE IF m.state = Backup THEN resetMasterDownTimer(m)
    ELSE IF m.state = Master THEN
        IF \/ pkt.priority > m.priority
           \/ (pkt.priority = m.priority /\ compareSourceIP(m, pkt) > 0)
        THEN transition(m, Backup)
        ELSE m
    ELSE m

handlePacket(m, pkt) ==
    IF pkt.vrid # m.vrid THEN m
    ELSE IF pkt.priority = 0 THEN eventSend(m, EventPriorityZeroReceived)
    ELSE IF m.state = Backup THEN
        IF pkt.priority >= m.priority THEN resetMasterDownTimer(m) ELSE m
    ELSE IF m.state = Master THEN
        IF \/ pkt.priority > m.priority
           \/ (pkt.priority = m.priority /\ compareSourceIP(m, pkt) > 0)
        THEN transition(m, Backup)
        ELSE m
    ELSE m

----------------------------------------------------------------------------
(* VirtualRouter *)

Routers == DOMAIN vr

NoPacket == NewPacket(0, 0, 0, <<>>, <<>>)
NoStep   == [op |-> "none", ev |-> "", pkt |-> NoPacket, from |-> StateInit,
             calls |-> <<>>]

\* a Config: the fields of the struct, VirtualIPs as the strings given
Config(vrid, priority, iface, vips, advInterval, preempt) ==
    [ VRID        |-> vrid,
      Priority    |-> priority,
      Interface   |-> iface,
      VirtualIPs  |-> vips,
      AdvInterval |-> advInterval,
      Preempt     |-> preempt ]

\* net.ParseIP on the address literals the model configures: the 16-byte
\* form of the address (an IPv4 address in its IPv4-in-IPv6 form), or nil
\* (the empty sequence) for a string that is no address
V4InV6Prefix == <<0, 0, 0, 0, 0, 0, 0, 0, 0, 0, 255, 255>>

ParseIP(s) ==
    CASE s = "10.0.0.100"  -> V4InV6Prefix \o <<10, 0, 0, 100>>
      [] s = "10.0.0.101"  -> V4InV6Prefix \o <<10, 0, 0, 101>>
      [] s = "2001:db8::1" -> <<32, 1, 13, 184, 0, 0, 0, 0, 0, 0, 0, 0, 0, 0, 0, 1>>
      [] OTHER             -> <<>>

\* net.IP.To4: the 4-byte form of an IPv4 address, nil for any other address
To4(ip) ==
    IF Len(ip) = 4 THEN ip
    ELSE IF Len(ip) = 16 /\ SubSeq(ip, 1, 12) = V4InV6Prefix THEN SubSeq(ip, 13, 16)
    ELSE <<>>

\* the loop over cfg.VirtualIPs: the first string that fails ends it; the
\* list is walked by halves so that a long list is evaluated at a small depth
RECURSIVE parseVirtualIPs(_, _)
parseVirtualIPs(strs, ips) ==
    IF strs = <<>> THEN [err |-> "", ips |-> ips]
    ELSE IF Len(strs) = 1 THEN
         LET ip == ParseIP(strs[1])
         IN  IF ip = <<>> THEN [err |-> "invalid IP address", ips |-> <<>>]
             ELSE IF To4(ip) = <<>>
                  THEN [err |-> "only IPv4 addresses are supported", ips |-> <<>>]
             ELSE [err |-> "", ips |-> Append(ips, To4(ip))]
    ELSE LET h     == Len(strs) \div 2
             first == parseVirtualIPs(SubSeq(strs, 1, h), ips)
         IN  IF first.err # "" THEN first
             ELSE parseVirtualIPs(SubSeq(strs, h + 1, Len(strs)), first.ips)

NoRouter == [vrid |-> 0]

\* NewVirtualRouter that copies what it is given without looking at it
NewVirtualRouter_noValidation(cfg) ==
    [ err    |-> "",
      router |-> [ vrid     |-> cfg.VRID,
                   priority |-> cfg.Priority,
                   ips      |-> [i \in DOMAIN cfg.VirtualIPs |-> To4(ParseIP(cfg.VirtualIPs[i]))],
                   iface    |-> cfg.Interface,
                   running  |-> FALSE,
                   ctx      |-> "none",
                   network  |-> "none",
                   sendLoop |-> "none",
                   recvLoop |-> "none",
                   stop     |-> "idle",
                   ret      |-> "none",
                   killed   |-> FALSE ] ]

\* NewVirtualRouter that consults Preempt: a router that may not preempt is
\* not built as the address owner
NewVirtualRouter_preemptOwner(cfg) ==
    LET res == NewVirtualRouter_noValidation(cfg)
    IN  IF cfg.VRID = 0 \/ cfg.VRID > 255 \/ cfg.Priority > 255 \/ cfg.Interface = ""
           \/ Len(cfg.VirtualIPs) = 0 \/ res.err # ""
        THEN [err |-> "invalid config", router |-> NoRouter]
        ELSE IF ~cfg.Preempt /\ cfg.Priority = OwnerPriority
        THEN [res EXCEPT !.router.priority = OwnerPriority - 1]
        ELSE res

\* the result of NewVirtualRouter: err is "" and router the new router, or
\* err is the error and router is NoRouter (nil)
NewVirtualRouter(cfg) ==
    IF cfg.VRID = 0 \/ cfg.VRID > 255
    THEN [err |-> "invalid VRID", router |-> NoRouter]
    ELSE IF cfg.Priority > 255
    THEN [err |-> "invalid priority", router |-> NoRouter]
    ELSE IF cfg.Interface = ""
    THEN [err |-> "interface name is required", router |-> NoRouter]
    ELSE IF Len(cfg.VirtualIPs) = 0
    THEN [err |-> "at least one virtual IP is required", router |-> NoRouter]
    ELSE LET parsed == parseVirtualIPs(cfg.VirtualIPs, <<>>)
         IN  IF parsed.err # "" THEN [err |-> parsed.err, router |-> NoRouter]
             ELSE [ err    |-> "",
                    router |->
                      [ vrid     |-> cfg.VRID,
                        priority |-> cfg.Priority,
                        ips      |-> parsed.ips,
                        iface    |-> cfg.Interface,
                        running  |-> FALSE,
                        ctx      |-> "none",     \* none, live, done
                        network  |-> "none",     \* none, open, closed
                        sendLoop |-> "none",     \* none, run, done
                        recvLoop |-> "none",     \* none, check, read, done
                        stop     |-> "idle",     \* position of a call of Stop that holds vr.mu
                        ret      |-> "none",     \* what the last call of Start or Stop returned
                        killed   |-> FALSE ] ]   \* the process was killed

\* the Config of a router of the model with the given priority
ConfigOf(priority) == Config(OwnVRID, priority, "eth0", <<"10.0.0.100">>, 1, TRUE)

Alive(r) == ~vr[r].killed

\* Start: the network opens
Start(r) ==
    /\ Alive(r)
    /\ vr[r].stop = "idle"
    /\ IF vr[r].running
       THEN /\ vr[r].ret # "already running"
            /\ vr' = [vr EXCEPT ![r].ret = "already running"]
            /\ UNCHANGED <<sm, sock, last>>
       ELSE /\ vr' = [vr EXCEPT ![r].network  = "open",
                                ![r].ctx      = "live",
                                ![r].sendLoop = "run",
                                ![r].recvLoop = "check",
                                ![r].running  = TRUE,
                                ![r].ret      = "ok"]
            /\ sm' = [sm EXCEPT ![r] =
                        [NewStateMachine(vr[r].vrid, vr[r].priority, vr[r].ips,
                                         SourceIPOf(r), sm[r].bound)
                           EXCEPT !.eventCh = <<EventStartup>>, !.run = "select"]]
            /\ sock' = [sock EXCEPT ![r] = <<>>]
            /\ last' = [last EXCEPT ![r] = NoStep]
    /\ UNCHANGED <<env, ipm, build, wire>>

\* Start: NewNetwork fails (no such interface, no IPv4 address, no privilege)
StartNetworkError(r) ==
    /\ Alive(r)
    /\ vr[r].stop = "idle"
    /\ ~vr[r].running
    /\ vr[r].ret # "network error"
    /\ vr' = [vr EXCEPT ![r].ret = "network error"]
    /\ UNCHANGED <<sm, sock, last, env, ipm, build, wire>>

\* Stop that does not look at the running flag
StopEnter_noCheck(r) ==
    /\ Alive(r)
    /\ vr[r].stop = "idle"
    /\ vr' = [vr EXCEPT ![r].stop = "locked"]
    /\ UNCHANGED <<sm, sock, last, env, ipm, build, wire>>

\* Stop, up to the check of the running flag
StopEnter(r) ==
    /\ Alive(r)
    /\ vr[r].stop = "idle"
    /\ IF vr[r].running
       THEN vr' = [vr EXCEPT ![r].stop = "locked"]
       ELSE /\ vr[r].ret # "not running"
            /\ vr' = [vr EXCEPT ![r].ret = "not running"]
    /\ UNCHANGED <<sm, sock, last, env, ipm, build, wire>>

\* Stop: vr.stateMachine.Stop() closes stopCh
StopStateMachine(r) ==
    /\ Alive(r)
    /\ vr[r].stop = "locked"
    /\ sm' = [sm EXCEPT ![r].stopCh = "closed"]
    /\ vr' = [vr EXCEPT ![r].stop = "signalled"]
    /\ UNCHANGED <<sock, last, env, ipm, build, wire>>

\* Stop: vr.cancel()
StopCancel(r) ==
    /\ Alive(r)
    /\ vr[r].stop = "signalled"
    /\ vr' = [vr EXCEPT ![r].ctx = "done", ![r].stop = "waiting"]
    /\ UNCHANGED <<sm, sock, last, env, ipm, build, wire>>

\* Stop: vr.wg.Wait() returns once the send and the receive worker are done
StopWait(r) ==
    /\ Alive(r)
    /\ vr[r].stop = "waiting"
    /\ vr[r].sendLoop = "done"
    /\ vr[r].recvLoop = "done"
    /\ vr' = [vr EXCEPT ![r].stop = "joined"]
    /\ UNCHANGED <<sm, sock, last, env, ipm, build, wire>>

\* Stop: the socket is closed, the flag cleared and Stop returns nil
StopClose(r) ==
    /\ Alive(r)
    /\ vr[r].stop = "joined"
    /\ vr' = [vr EXCEPT ![r].network = "closed",
                        ![r].running = FALSE,
                        ![r].ret     = "stopped",
                        ![r].stop    = "idle"]
    /\ sock' = [sock EXCEPT ![r] = <<>>]
    /\ UNCHANGED <<sm, last, env, ipm, build, wire>>

----------------------------------------------------------------------------
(* The medium and the workers *)

\* a frame reaches the socket of router q when the socket is open and its
\* buffer has room; otherwise the kernel drops it
Deliver(socks, q, pkt) ==
    IF Alive(q) /\ vr[q].network = "open" /\ Len(socks[q]) < env.sock
    THEN [socks EXCEPT ![q] = Append(@, pkt)]
    ELSE socks

\* the frame is multicast to every router of the segment, the sender included
RECURSIVE Multicast(_, _, _)
Multicast(socks, qs, pkt) ==
    IF qs = {} THEN socks
    ELSE LET q == CHOOSE x \in qs : TRUE
         IN  Multicast(Deliver(socks, q, pkt), qs \ {q}, pkt)

\* sendLoop: a packet of sendCh is marshalled and written to the socket
SendLoopSend(r) ==
    /\ Alive(r)
    /\ vr[r].sendLoop = "run"
    /\ sm[r].sendCh # <<>>
    /\ sm' = [sm EXCEPT ![r].sendCh = Tail(@)]
    /\ sock' = Multicast(sock, Routers, Head(sm[r].sendCh))
    /\ UNCHANGED <<vr, last, env, ipm, build, wire>>

\* sendLoop: ctx.Done() is selected and the worker returns
SendLoopDone(r) ==
    /\ Alive(r)
    /\ vr[r].sendLoop = "run"
    /\ vr[r].ctx = "done"
    /\ vr' = [vr EXCEPT ![r].sendLoop = "done"]
    /\ UNCHANGED <<sm, sock, last, env, ipm, build, wire>>

\* ReceivePackets, top of the loop: return when cancelled, else go and read
RecvLoopCheck(r) ==
    /\ Alive(r)
    /\ vr[r].recvLoop = "check"
    /\ vr' = [vr EXCEPT ![r].recvLoop = IF vr[r].ctx = "done" THEN "done" ELSE "read"]
    /\ UNCHANGED <<sm, sock, last, env, ipm, build, wire>>

\* ProcessPacket that queues the packet whatever the queue holds
ProcessPacket_unbounded(m, pkt) == [m EXCEPT !.recvCh = Append(@, pkt)]

\* StateMachine.ProcessPacket: non-blocking send on recvCh
ProcessPacket(m, pkt) ==
    IF Len(m.recvCh) < ChanCap THEN [m EXCEPT !.recvCh = Append(@, pkt)] ELSE m

\* ReceivePackets: ReadFrom returns a frame, which is decoded and handed over
RecvLoopRead(r) ==
    /\ Alive(r)
    /\ vr[r].recvLoop = "read"
    /\ sock[r] # <<>>
    /\ sock' = [sock EXCEPT ![r] = Tail(@)]
    /\ sm' = [sm EXCEPT ![r] = ProcessPacket(@, Head(sock[r]))]
    /\ vr' = [vr EXCEPT ![r].recvLoop = "check"]
    /\ UNCHANGED <<last, env, ipm, build, wire>>

----------------------------------------------------------------------------
(* StateMachine.run: one action for each case of the select *)

Selecting(r) == Alive(r) /\ sm[r].run = "select"

\* what the driver did last: the case of select it took, the event or packet
\* it handled, the state it was in and the calls of the observer it made
Step(op, ev, pkt, from, calls) ==
    [op |-> op, ev |-> ev, pkt |-> pkt, from |-> from, calls |-> calls]

\* the state machine a handler leaves, its calls of the observer noted in last
Returned(m) == [m EXCEPT !.notified = <<>>]

DriverCtxDone(r) ==
    /\ Selecting(r)
    /\ vr[r].ctx = "done"
    /\ LET res == transition(sm[r], StateInit)
       IN  /\ sm' = [sm EXCEPT ![r] = [Returned(res) EXCEPT !.run = "exited"]]
           /\ last' = [last EXCEPT ![r] =
                         Step("ctx", "", NoPacket, sm[r].state, res.notified)]
    /\ UNCHANGED <<vr, sock, env, ipm, build, wire>>

DriverStop(r) ==
    /\ Selecting(r)
    /\ sm[r].stopCh = "closed"
    /\ LET res == transition(sm[r], StateInit)
       IN  /\ sm' = [sm EXCEPT ![r] = [Returned(res) EXCEPT !.run = "exited"]]
           /\ last' = [last EXCEPT ![r] =
                         Step("stop", "", NoPacket, sm[r].state, res.notified)]
    /\ UNCHANGED <<vr, sock, env, ipm, build, wire>>

DriverEvent(r) ==
    /\ Selecting(r)
    /\ sm[r].eventCh # <<>>
    /\ LET res == handleEvent([sm[r] EXCEPT !.eventCh = Tail(@)], Head(sm[r].eventCh))
       IN  /\ sm' = [sm EXCEPT ![r] = Returned(res)]
           /\ last' = [last EXCEPT ![r] =
                         Step("event", Head(sm[r].eventCh), NoPacket, sm[r].state,
                              res.notified)]
    /\ UNCHANGED <<vr, sock, env, ipm, build, wire>>

DriverPacket(r) ==
    /\ Selecting(r)
    /\ sm[r].recvCh # <<>>
    /\ LET res == handlePacket([sm[r] EXCEPT !.recvCh = Tail(@)], Head(sm[r].recvCh))
       IN  /\ sm' = [sm EXCEPT ![r] = Returned(res)]
           /\ last' = [last EXCEPT ![r] =
                         Step("packet", "", Head(sm[r].recvCh), sm[r].state,
                              res.notified)]
    /\ UNCHANGED <<vr, sock, env, ipm, build, wire>>

\* case <-sm.masterDownTimerChan()
onMasterDownTimer(m) ==
    LET d == [m EXCEPT !.masterDownTimer.st = "drained"]
    IN  IF m.state = Backup THEN eventSend(d, EventMasterDown) ELSE d

DriverMasterDownTimer(r) ==
    /\ Selecting(r)
    /\ sm[r].masterDownTimer.st = "fired"
    /\ sm' = [sm EXCEPT ![r] = onMasterDownTimer(@)]
    /\ last' = [last EXCEPT ![r] =
                  Step("masterDownTimer", "", NoPacket, sm[r].state, <<>>)]
    /\ UNCHANGED <<vr, sock, env, ipm, build, wire>>

\* case <-sm.advertTimerChan()
onAdvertTimer(m) ==
    LET d == [m EXCEPT !.advertTimer.tick = FALSE]
    IN  IF m.state = Master THEN sendAdvertisement(d) ELSE d

DriverAdvertTimer(r) ==
    /\ Selecting(r)
    /\ sm[r].advertTimer.st = "on"
    /\ sm[r].advertTimer.tick
    /\ sm' = [sm EXCEPT ![r] = onAdvertTimer(@)]
    /\ last' = [last EXCEPT ![r] =
                  Step("advertTimer", "", NoPacket, sm[r].state, <<>>)]
    /\ UNCHANGED <<vr, sock, env, ipm, build, wire>>

----------------------------------------------------------------------------
(* The environment of a single router: frames arrive, timers expire *)

\* what waits in the queues of router r
Backlog(r) == Len(sock[r]) + Len(sm[r].recvCh) + Len(sm[r].eventCh) + Len(sm[r].sendCh)

\* the environment brings a new frame or timer fire only to a router that
\* has kept up with the earlier ones
KeptUp(r) == Backlog(r) < env.backlog

FrameOf(shape) == NewPacket(VRRPv2, shape[1], shape[2], VirtualIPs, shape[3])

FrameArrives(r) ==
    /\ Alive(r)
    /\ env.inject > 0
    /\ KeptUp(r)
    /\ vr[r].network = "open"
    /\ Len(sock[r]) < env.sock
    /\ \E shape \in FrameShapes :
          sock' = [sock EXCEPT ![r] = Append(@, FrameOf(shape))]
    /\ env' = [env EXCEPT !.inject = @ - 1]
    /\ UNCHANGED <<sm, vr, last, ipm, build, wire>>

\* the runtime fires the master-down timer
MasterDownTimerFires(r) ==
    /\ Alive(r)
    /\ sm[r].masterDownTimer.st = "armed"
    /\ KeptUp(r)
    /\ sm' = [sm EXCEPT ![r].masterDownTimer.st = "fired"]
    /\ UNCHANGED <<vr, sock, last, env, ipm, build, wire>>

\* the runtime puts a tick in the channel of the advertisement ticker
AdvertTimerTicks(r) ==
    /\ Alive(r)
    /\ sm[r].advertTimer.st = "on"
    /\ ~sm[r].advertTimer.tick
    /\ KeptUp(r)
    /\ sm' = [sm EXCEPT ![r].advertTimer.tick = TRUE]
    /\ UNCHANGED <<vr, sock, last, env, ipm, build, wire>>

----------------------------------------------------------------------------
(* One router *)

\* no IPManager and no construction are under study
NoIPManager == [callers |-> {}]
NoBuild     == [stage |-> "none"]
NoWire      == [stage |-> "none"]

Init ==
    /\ \E p \in Priorities : vr = [r \in {1} |-> NewVirtualRouter(ConfigOf(p)).router]
    /\ sm = [r \in {1} |->
               NewStateMachine(OwnVRID, vr[r].priority, VirtualIPs, SourceIPOf(r), {})]
    /\ sock = [r \in {1} |-> <<>>]
    /\ last = [r \in {1} |-> NoStep]
    /\ env = [inject |-> MaxInject, backlog |-> MaxBacklog, sock |-> MaxSock]
    /\ ipm = NoIPManager
    /\ build = NoBuild
    /\ wire = NoWire

Next ==
    \/ \E r \in Routers : Start(r)
    \/ \E r \in Routers : StartNetworkError(r)
    \/ \E r \in Routers : StopEnter(r)
    \/ \E r \in Routers : StopStateMachine(r)
    \/ \E r \in Routers : StopCancel(r)
    \/ \E r \in Routers : StopWait(r)
    \/ \E r \in Routers : StopClose(r)
    \/ \E r \in Routers : SendLoopSend(r)
    \/ \E r \in Routers : SendLoopDone(r)
    \/ \E r \in Routers : RecvLoopCheck(r)
    \/ \E r \in Routers : RecvLoopRead(r)
    \/ \E r \in Routers : DriverCtxDone(r)
    \/ \E r \in Routers : DriverStop(r)
    \/ \E r \in Routers : DriverEvent(r)
    \/ \E r \in Routers : DriverPacket(r)
    \/ \E r \in Routers : DriverMasterDownTimer(r)
    \/ \E r \in Routers : DriverAdvertTimer(r)
    \/ \E r \in Routers : FrameArrives(r)
    \/ \E r \in Routers : MasterDownTimerFires(r)
    \/ \E r \in Routers : AdvertTimerTicks(r)

Spec == Init /\ [][Next]_vars

TypeOK ==
    \A r \in Routers :
        /\ sm[r].state \in {StateInit, Backup, Master}
        /\ Len(sm[r].sendCh) <= ChanCap
        /\ Len(sm[r].recvCh) <= ChanCap
        /\ Len(sm[r].eventCh) <= ChanCap

----------------------------------------------------------------------------
(* Two routers on one segment, with time *)

\* the process of router r is killed: no farewell, nothing is cleaned up
Kill(r) ==
    /\ Alive(r)
    /\ vr[r].running
    /\ vr' = [vr EXCEPT ![r].killed = TRUE]
    /\ UNCHANGED <<sm, sock, last, env, ipm, build, wire>>

\* router r has a step to take that needs no time to pass
Busy(r) ==
    /\ Alive(r)
    /\ \/ vr[r].sendLoop = "run" /\ sm[r].sendCh # <<>>
       \/ vr[r].recvLoop = "check"
       \/ vr[r].recvLoop = "read" /\ sock[r] # <<>>
       \/ /\ sm[r].run = "select"
          /\ \/ sm[r].eventCh # <<>>
             \/ sm[r].recvCh # <<>>
             \/ sm[r].masterDownTimer.st = "fired"
             \/ sm[r].advertTimer.tick

\* the times to the next expiry of the timers of r
TimesLeft(r) ==
    IF ~Alive(r) THEN {}
    ELSE (IF sm[r].masterDownTimer.st = "armed" THEN {sm[r].masterDownTimer.left} ELSE {})
         \cup (IF sm[r].advertTimer.st = "on" THEN {sm[r].advertTimer.left} ELSE {})

MinOf(S) == CHOOSE x \in S : \A y \in S : x <= y

\* d milliseconds pass for the timers of m
Elapse(m, d) ==
    LET md == m.masterDownTimer
        ad == m.advertTimer
    IN  [m EXCEPT
           !.masterDownTimer =
               IF md.st # "armed" THEN md
               ELSE IF md.left > d THEN [md EXCEPT !.left = @ - d]
               ELSE [st |-> "fired", left |-> 0],
           !.advertTimer =
               IF ad.st # "on" THEN ad
               ELSE IF ad.left > d THEN [ad EXCEPT !.left = @ - d]
               ELSE [ad EXCEPT !.left = m.advertisementInterval, !.tick = TRUE]]

\* time passes, up to the next expiry, once no router has a step to take;
\* while a router is still to be started it may also pass in smaller steps
Advance ==
    /\ \A r \in Routers : ~Busy(r)
    /\ UNION {TimesLeft(r) : r \in Routers} # {}
    /\ LET next == MinOf(UNION {TimesLeft(r) : r \in Routers})
       IN  \E d \in {next} \cup
                    {x \in StartDelays :
                        x < next /\ \E r \in Routers : Alive(r) /\ vr[r].ctx = "none"} :
              sm' = [r \in Routers |-> IF Alive(r) THEN Elapse(sm[r], d) ELSE sm[r]]
    /\ UNCHANGED <<vr, sock, last, env, ipm, build, wire>>

PairInit ==
    /\ \E p \in [{1, 2} -> PairPriorities] : vr = [r \in {1, 2} |->
                                              NewVirtualRouter(ConfigOf(p[r])).router]
    /\ sm = [r \in {1, 2} |->
               NewStateMachine(OwnVRID, vr[r].priority, VirtualIPs, SourceIPOf(r), {})]
    /\ sock = [r \in {1, 2} |-> <<>>]
    /\ last = [r \in {1, 2} |-> NoStep]
    /\ env = [inject |-> 0, backlog |-> 0, sock |-> PairSock]
    /\ ipm = NoIPManager
    /\ build = NoBuild
    /\ wire = NoWire

\* the steps of the routers that take no time
Instant ==
    \/ \E r \in Routers : SendLoopSend(r)
    \/ \E r \in Routers : RecvLoopCheck(r)
    \/ \E r \in Routers : RecvLoopRead(r)
    \/ \E r \in Routers : DriverEvent(r)
    \/ \E r \in Routers : DriverPacket(r)
    \/ \E r \in Routers : DriverMasterDownTimer(r)
    \/ \E r \in Routers : DriverAdvertTimer(r)

PairNext ==
    \/ \E r \in Routers : Start(r)
    \/ Instant
    \/ \E r \in Routers : Kill(r)
    \/ Advance

\* every router is eventually started, every enabled step is eventually taken
\* and time goes on; a kill may or may not happen
PairFairness ==
    /\ \A r \in {1, 2} : WF_vars(Start(r))
    /\ WF_vars(Instant \/ Advance)

PairSpec == PairInit /\ [][PairNext]_vars /\ PairFairness

----------------------------------------------------------------------------
(* Election and failover *)

AllAlive == \A r \in Routers : Alive(r)

\* of two routers with distinct priorities the higher is Master, the lower Backup
Elected ==
    \A r, q \in Routers :
        vr[r].priority > vr[q].priority =>
            sm[r].state = Master /\ sm[q].state = Backup

\* C1: as long as no router is killed, two routers with distinct priorities
\* eventually reach, and stay in, the configuration where the higher-priority
\* router is Master and the other Backup, whichever started first.
C1_Election == <>[](AllAlive => Elected)

\* the lower-priority router was Master first and has yielded to the higher one
C1_Witness ==
    /\ AllAlive
    /\ \E r, q \in Routers :
          /\ vr[r].priority > vr[q].priority
          /\ sm[r].state = Master
          /\ sm[q].state = Backup
          /\ last[q].op = "packet"
          /\ last[q].from = Master

\* no frame is lost in the socket buffers of a pair
PairNoDrop == \A r \in Routers : Len(sock[r]) < env.sock

\* C2: a Backup whose peer is dead, or has a lower priority, receives no
\* advertisement that resets its timer for ever: it becomes Master, by the
\* master-down event, unless it is killed itself.
C2_Failover ==
    \A r \in {1, 2} :
        (/\ Alive(r)
         /\ sm[r].state = Backup
         /\ \A q \in {1, 2} \ {r} : ~Alive(q) \/ vr[q].priority < vr[r].priority)
        ~> (\/ ~Alive(r)
            \/ /\ sm[r].state = Master
               /\ last[r].op = "event"
               /\ last[r].ev = EventMasterDown
               /\ last[r].from = Backup)

\* the higher-priority router was killed and the lower one took over on expiry
C2_Witness ==
    \E r, q \in Routers :
        /\ Alive(r) /\ ~Alive(q)
        /\ vr[q].priority > vr[r].priority
        /\ sm[q].state = Master
        /\ sm[r].state = Master
        /\ last[r].op = "event"
        /\ last[r].ev = EventMasterDown
        /\ last[r].from = Backup

----------------------------------------------------------------------------
(* Packet handling *)

\* the driver of r handles the packet at the head of recvCh
Handles(r) == DriverPacket(r)
Handled(r) == Head(sm[r].recvCh)

\* what handling a packet leaves of the state machine when it ignores it
Ignored(r) == [sm[r] EXCEPT !.recvCh = Tail(@)]

OwnAdvert(r, pkt) == pkt.vrid = sm[r].vrid /\ pkt.priority # 0

\* C3: a Master that handles an advertisement of its VRID with a strictly
\* greater priority is Backup after that step, its advertisement ticker is
\* stopped, its master-down timer armed and none of its VIPs is bound.
C3_MasterYields ==
    [][\A r \in Routers :
          (/\ Handles(r)
           /\ sm[r].state = Master
           /\ OwnAdvert(r, Handled(r))
           /\ Handled(r).priority > sm[r].priority)
          => /\ sm'[r].state = Backup
             /\ sm'[r].advertTimer = NilTicker
             /\ sm'[r].masterDownTimer = NewTimer(sm[r].masterDownInterval)
             /\ sm'[r].bound = {}]_vars

C3_Witness ==
    \E r \in Routers :
        /\ last[r].op = "packet"
        /\ last[r].from = Master
        /\ last[r].pkt.vrid = sm[r].vrid
        /\ last[r].pkt.priority > sm[r].priority
        /\ sm[r].state = Backup
        /\ sm[r].masterDownTimer.st = "armed"

\* C4: a Master that handles an advertisement of its VRID with its own
\* priority and a byte-wise greater source address becomes Backup.
C4_TieBreakYield ==
    [][\A r \in Routers :
          (/\ Handles(r)
           /\ sm[r].state = Master
           /\ OwnAdvert(r, Handled(r))
           /\ Handled(r).priority = sm[r].priority
           /\ BytesCompare(Handled(r).src, sm[r].srcIP) > 0)
          => sm'[r].state = Backup]_vars

\* C5: a Master that handles an advertisement of its VRID with its own
\* priority and a byte-wise lower source address stays Master, and nothing
\* of the state machine changes but the packet leaving recvCh.
C5_TieBreakKeep ==
    [][\A r \in Routers :
          (/\ Handles(r)
           /\ sm[r].state = Master
           /\ OwnAdvert(r, Handled(r))
           /\ Handled(r).priority = sm[r].priority
           /\ BytesCompare(Handled(r).src, sm[r].srcIP) < 0)
          => /\ sm'[r] = Ignored(r)
             /\ sm'[r].state = Master]_vars

C5_Witness ==
    \E r \in Routers :
        /\ last[r].op = "packet"
        /\ last[r].from = Master
        /\ last[r].pkt.vrid = sm[r].vrid
        /\ last[r].pkt.priority = sm[r].priority
        /\ BytesCompare(last[r].pkt.src, sm[r].srcIP) < 0
        /\ sm[r].state = Master
        /\ sm[r].advertTimer.st = "on"

\* C6: two live routers with equal priority eventually reach, and stay in,
\* the configuration where the one with the greater source address is Master
\* and the other Backup.
C6_NoSplitBrain ==
    <>[](AllAlive =>
           \A r, q \in {1, 2} :
               (/\ vr[r].priority = vr[q].priority
                /\ BytesCompare(sm[r].srcIP, sm[q].srcIP) > 0)
               => sm[r].state = Master /\ sm[q].state = Backup)

\* C7: handling a packet of a foreign VRID changes nothing: state, timers,
\* event queue, send queue and VIPs of the state machine, the router and
\* the socket stay as they are, whatever the state and the priority.
C7_VRIDIsolation ==
    [][\A r \in Routers :
          (Handles(r) /\ Handled(r).vrid # sm[r].vrid)
          => /\ sm'[r] = Ignored(r)
             /\ UNCHANGED <<vr, sock>>]_vars

C7_Witness ==
    \E r \in Routers :
        /\ last[r].op = "packet"
        /\ last[r].from = Master
        /\ last[r].pkt.vrid # sm[r].vrid
        /\ last[r].pkt.priority = 255
        /\ sm[r].priority < 255
        /\ sm[r].state = Master

----------------------------------------------------------------------------
(* Startup and shutdown *)

\* C8: the state machine leaves Init only by handling the Startup event; it
\* goes to Master exactly when the priority is 255, and otherwise to Backup
\* with the master-down timer armed.
C8_FirstTransition ==
    [][\A r \in Routers :
          (sm[r].state = StateInit /\ sm'[r].state # StateInit)
          => /\ DriverEvent(r)
             /\ Head(sm[r].eventCh) = EventStartup
             /\ (sm'[r].state = Master) <=> (sm[r].priority = 255)
             /\ sm[r].priority < 255 =>
                   /\ sm'[r].state = Backup
                   /\ sm'[r].masterDownTimer = NewTimer(sm[r].masterDownInterval)
                   /\ sm'[r].advertTimer = NilTicker]_vars

C8_Witness ==
    \E r \in Routers :
        /\ sm[r].priority = 255
        /\ last[r].op = "event"
        /\ last[r].ev = EventStartup
        /\ last[r].from = StateInit
        /\ sm[r].state = Master
        /\ sm[r].masterDownTimer.st = "nil"

\* C9: when Stop returns nil the state machine is in Init, both timers are
\* stopped and no VIP is bound.
C9_StoppedIsInit ==
    [][\A r \in Routers :
          StopClose(r) =>
              /\ sm'[r].state = StateInit
              /\ sm'[r].masterDownTimer = NilTimer
              /\ sm'[r].advertTimer = NilTicker
              /\ sm'[r].bound = {}]_vars

\* C10: whenever the socket is closed the state machine has made its
\* transition to Init.
C10_InitBeforeClose ==
    \A r \in Routers :
        vr[r].network = "closed" => sm[r].state = StateInit

----------------------------------------------------------------------------
(* One router whose goroutines are scheduled fairly: every step of Stop, of *)
(* the workers and of the driver that stays possible is taken.  Nothing is  *)
(* assumed of the environment: no frame has to arrive, no timer has to      *)
(* fire.                                                                    *)

StopFairness ==
    \A r \in {1} :
        /\ WF_vars(StopStateMachine(r))
        /\ WF_vars(StopCancel(r))
        /\ WF_vars(StopWait(r))
        /\ WF_vars(StopClose(r))
        /\ WF_vars(SendLoopSend(r))
        /\ WF_vars(SendLoopDone(r))
        /\ WF_vars(RecvLoopCheck(r))
        /\ WF_vars(RecvLoopRead(r))
        /\ WF_vars(DriverCtxDone(r))
        /\ WF_vars(DriverStop(r))
        /\ WF_vars(DriverEvent(r))
        /\ WF_vars(DriverPacket(r))
        /\ WF_vars(DriverMasterDownTimer(r))
        /\ WF_vars(DriverAdvertTimer(r))

StopSpec == Init /\ [][Next]_vars /\ StopFairness

\* Stop is past its check of the running flag and has not returned
InStop(r) == vr[r].stop # "idle"

\* C11: every call of Stop on a running router returns, with both workers
\* joined and the socket closed, whether or not a frame arrives after the call
C11_StopReturns ==
    \A r \in {1} :
        InStop(r) ~> ( /\ ~InStop(r)
                       /\ vr[r].ret = "stopped"
                       /\ vr[r].sendLoop = "done"
                       /\ vr[r].recvLoop = "done"
                       /\ vr[r].network = "closed" )

----------------------------------------------------------------------------
(* Start and Stop on a router that is in the wrong state for them *)

\* router r has been started at some time: Start opened a network for it
Started(r) == vr[r].network # "none"

\* the call changes nothing of r but what it returns
OnlyReturns(r, err) ==
    /\ vr'[r] = [vr[r] EXCEPT !.ret = err]
    /\ sm'[r] = sm[r]
    /\ sock'[r] = sock[r]

\* C12: Stop on a router that is not running (never started, or stopped)
\* returns an error and leaves the running flag, the state machine, the
\* workers and the socket as they were
C12_StopNotRunning ==
    [][\A r \in Routers :
          (StopEnter(r) /\ ~vr[r].running) => OnlyReturns(r, "not running")]_vars

\* Stop has returned its error on a router that was started and stopped
C12_Witness ==
    \E r \in Routers :
        /\ vr[r].ret = "not running"
        /\ Started(r)
        /\ ~vr[r].running
        /\ vr[r].network = "closed"

\* C13: Start on a router that is running, or that was started and then
\* stopped, returns an error and opens no socket, creates no state machine
\* and spawns no worker
C13_StartOnce ==
    [][\A r \in Routers :
          (Start(r) /\ Started(r)) => OnlyReturns(r, "already running")]_vars

----------------------------------------------------------------------------
(* Construction: a Config goes through NewVirtualRouter; the router it      *)
(* gives is started (Start makes its state machine and queues Startup),     *)
(* the driver handles Startup and, in Backup, the expiry of the             *)
(* master-down timer.  build holds the Config, the stage reached and what   *)
(* each step returned.                                                      *)

MaxVIPs        == 2    \* virtual IPs in a Config
MaxAdvInterval == 3    \* seconds of the advertisement interval of a Config

\* the strings a Config gives as virtual IPs: two IPv4 addresses, an IPv6
\* address, a number out of range, the empty string
VIPStrings == {"10.0.0.100", "10.0.0.101", "2001:db8::1", "10.0.0.256", ""}

SeqsUpTo(S, n) == UNION { [1..k -> S] : k \in 0..n }

\* Configs that differ in what NewVirtualRouter validates
ValidationConfigs ==
    { Config(v, p, i, ips, 1, TRUE) :
        v \in {0, 1, 255}, p \in {100, 255}, i \in {"", "eth0"},
        ips \in SeqsUpTo(VIPStrings, MaxVIPs) }

\* valid Configs of every priority and advertisement interval
IntervalConfigs ==
    { Config(OwnVRID, p, "eth0", <<"10.0.0.100">>, a, pre) :
        p \in 0..255, a \in 1..MaxAdvInterval, pre \in BOOLEAN }

\* valid Configs of an address owner with as many virtual IPs as a uint8
\* counts, and with one more
ManyVIPConfigs ==
    { Config(OwnVRID, OwnerPriority, "eth0",
             [i \in 1..n |-> IF i % 2 = 1 THEN "10.0.0.100" ELSE "10.0.0.101"],
             1, TRUE) :
        n \in {Uint8Values - 1, Uint8Values} }

NoMachine == [state |-> "none"]

BuildInit ==
    /\ \E cfg \in ValidationConfigs \cup IntervalConfigs \cup ManyVIPConfigs :
          build = [stage |-> "config", cfg |-> cfg, err |-> "",
                   router |-> NoRouter, m |-> NoMachine]
    /\ vr = <<>>
    /\ sm = <<>>
    /\ sock = <<>>
    /\ last = <<>>
    /\ env = [inject |-> 0, backlog |-> 0, sock |-> 0]
    /\ ipm = NoIPManager
    /\ wire = NoWire

\* NewVirtualRouter(cfg)
BuildNew ==
    /\ build.stage = "config"
    /\ LET res == NewVirtualRouter(build.cfg)
       IN  build' = [build EXCEPT !.stage  = IF res.err = "" THEN "router" ELSE "rejected",
                                  !.err    = res.err,
                                  !.router = res.router]
    /\ UNCHANGED <<sm, vr, sock, last, env, ipm, wire>>

\* Start: the state machine is made from the router and Startup is queued
BuildStart ==
    /\ build.stage = "router"
    /\ build' = [build EXCEPT
                   !.stage = "started",
                   !.m = [NewStateMachine(build.router.vrid, build.router.priority,
                                          build.router.ips, SourceIPOf(1), {})
                            EXCEPT !.eventCh = <<EventStartup>>, !.run = "select"]]
    /\ UNCHANGED <<sm, vr, sock, last, env, ipm, wire>>

\* the driver handles the event at the head of eventCh
BuildEvent ==
    /\ build.stage \in {"started", "run"}
    /\ build.m.eventCh # <<>>
    /\ build' = [build EXCEPT
                   !.stage = "run",
                   !.m = handleEvent([@ EXCEPT !.eventCh = Tail(@)], Head(build.m.eventCh))]
    /\ UNCHANGED <<sm, vr, sock, last, env, ipm, wire>>

\* the master-down timer fires and the driver receives from its channel
BuildMasterDownTimer ==
    /\ build.stage = "run"
    /\ build.m.masterDownTimer.st = "armed"
    /\ build' = [build EXCEPT !.m = onMasterDownTimer(@)]
    /\ UNCHANGED <<sm, vr, sock, last, env, ipm, wire>>

BuildNext ==
    \/ BuildNew
    \/ BuildStart
    \/ BuildEvent
    \/ BuildMasterDownTimer

BuildSpec == BuildInit /\ [][BuildNext]_vars

\* net.IP.String of a 4-byte address: the dotted decimal form
DottedQuad(ip) ==
    ToString(ip[1]) \o "." \o ToString(ip[2]) \o "." \o
    ToString(ip[3]) \o "." \o ToString(ip[4])

\* the dotted decimal forms of the IPv4 addresses whose bytes are among
\* those of the addresses the model configures
Octets == {0, 10, 100, 101, 255}

IsIPv4String(s) ==
    \E a \in Octets, b \in Octets, c \in Octets, d \in Octets :
        s = DottedQuad(<<a, b, c, d>>)

\* what the validation is said to reject
Rejected(cfg) ==
    \/ cfg.VirtualIPs = <<>>
    \/ \E i \in DOMAIN cfg.VirtualIPs : ~IsIPv4String(cfg.VirtualIPs[i])
    \/ cfg.VRID < 1
    \/ cfg.VRID > 255
    \/ cfg.Interface = ""

\* C14: NewVirtualRouter returns an error and no router for a Config with
\* no virtual IP, with a virtual IP that is no IPv4 address, with VRID 0 or
\* with no interface name; for any other Config it returns a router with the
\* VRID, the priority and the virtual IPs of the Config
C14_Validation ==
    build.stage \notin {"none", "config"} =>
        IF Rejected(build.cfg)
        THEN build.err # "" /\ build.router = NoRouter /\ build.stage = "rejected"
        ELSE /\ build.err = ""
             /\ build.router.vrid = build.cfg.VRID
             /\ build.router.priority = build.cfg.Priority
             /\ Len(build.router.ips) = Len(build.cfg.VirtualIPs)
             /\ \A i \in DOMAIN build.cfg.VirtualIPs :
                    /\ Len(build.router.ips[i]) = 4
                    /\ DottedQuad(build.router.ips[i]) = build.cfg.VirtualIPs[i]

\* a Config was rejected for its second virtual IP, the first being good
C14_Witness ==
    /\ build.stage = "rejected"
    /\ build.cfg.VRID = 255
    /\ build.cfg.Interface = "eth0"
    /\ build.cfg.VirtualIPs = <<"10.0.0.101", "2001:db8::1">>
    /\ build.err = "only IPv4 addresses are supported"

\* a Config with two virtual IPs gave a router
C14_Accepted ==
    /\ build.stage = "router"
    /\ build.cfg.VirtualIPs = <<"10.0.0.101", "10.0.0.100">>
    /\ build.router.ips = << <<10, 0, 0, 101>>, <<10, 0, 0, 100>> >>

\* the state machine of the Config exists
Built == build.stage \in {"started", "run"}

\* C15: the period of the advertisement ticker of a Master, and the
\* advertisement interval the master-down interval is computed from, are the
\* adv_interval_seconds of the Config, for every configured value from 1 up
C15_ConfiguredInterval ==
    Built =>
        LET adv == build.cfg.AdvInterval * Second
        IN  /\ build.m.advertisementInterval = adv
            /\ build.m.masterDownInterval =
                   calculateMasterDownInterval(build.m.priority, adv)
            /\ build.m.state = Master =>
                   build.m.advertTimer = NewTicker(adv)

\* skew_time with the multiplication done before the division, in ms
SkewTime(priority, advertisementInterval) ==
    ((256 - priority) * advertisementInterval) \div 256

\* C16: for every priority 0..255 the master-down interval is
\* 3 * advertisement_interval + skew_time, where skew_time is
\* ((256 - priority) * advertisement_interval) / 256 multiplied before it is
\* divided (1000 ms and priority 100 give 609 ms)
C16_MasterDownInterval ==
    Built =>
        build.m.masterDownInterval =
            3 * build.m.advertisementInterval
              + SkewTime(build.m.priority, build.m.advertisementInterval)

----------------------------------------------------------------------------
(* Virtual IPs on the interface of a router *)

\* the virtual IPs router r is configured with
ConfiguredIPs(r) == { sm[r].virtualIPs[i] : i \in DOMAIN sm[r].virtualIPs }

\* C17: once a transition into Master is done (from Init at startup with
\* priority 255, or from Backup when the master-down timer expired) every
\* configured virtual IP is bound on the interface of the router
C17_MasterBindsVIPs ==
    \A r \in Routers :
        sm[r].state = Master => ConfiguredIPs(r) \subseteq sm[r].bound

\* C18: a router in Init or in Backup has no virtual IP bound that it added
\* itself (transitions are single steps, so no state is inside one)
C18_BoundOnlyAsMaster ==
    \A r \in Routers :
        sm[r].state \in {StateInit, Backup} => sm[r].bound = {}

\* a router that was Master has gone back to Backup and has nothing bound
C18_Witness ==
    \E r \in Routers :
        /\ last[r].op = "packet"
        /\ last[r].from = Master
        /\ sm[r].state = Backup
        /\ sm[r].virtualIPs # <<>>
        /\ sm[r].bound = {}

----------------------------------------------------------------------------
(* IPManager.  ipm.addrs is the address table the kernel keeps for the      *)
(* interface, a set of addresses with their prefix length; ipm.call[c] is   *)
(* the call of IPManager that caller c is in.  AddIP and DelIP list the     *)
(* addresses and then change the table: two netlink requests, two steps.    *)
(* The callers have the privilege the requests need.                        *)

Addr(ip, prefixLen) == [ip |-> ip, prefixLen |-> prefixLen]

\* the address of the interface itself and the addresses the calls are about
OwnAddr  == Addr(<<10, 99, 0, 10>>, 24)
IPMgrIPs == { <<10, 0, 0, 100>>, <<10, 0, 0, 101>> }

\* what may be on the interface at the start beside its own address: the
\* first address as a /32, the second under the prefix of a subnet
Preset == { Addr(<<10, 0, 0, 100>>, 32), Addr(<<10, 0, 0, 101>>, 24) }

NoPrev == [op |-> "none", ip |-> <<>>, ret |-> ""]
NoCall ==
    [ op     |-> "none",   \* none, AddIP, DelIP, ListIPs
      ip     |-> <<>>,     \* the argument
      pc     |-> "idle",   \* idle, list, modify, done
      seen   |-> {},       \* what AddrList returned
      ret    |-> "",       \* "nil" or the error, once pc is done
      out    |-> <<>>,     \* the addresses ListIPs returned, one per entry
      before |-> {},       \* the table when the call was made (history)
      prev   |-> NoPrev ]  \* the call this caller made before (history)

\* netlink.AddrAdd: RTM_NEWADDR with NLM_F_CREATE|NLM_F_EXCL
AddrAdd(addrs, a) ==
    IF a \in addrs THEN [addrs |-> addrs, err |-> "file exists"]
                   ELSE [addrs |-> addrs \cup {a}, err |-> ""]

\* netlink.AddrDel: RTM_DELADDR
AddrDel(addrs, a) ==
    IF a \in addrs THEN [addrs |-> addrs \ {a}, err |-> ""]
                   ELSE [addrs |-> addrs, err |-> "cannot assign requested address"]

\* the entries of a listing whose address equals ip (a.IP.Equal(ip))
Matching(listing, ip) == { a \in listing : a.ip = ip }

IPMgrInit ==
    /\ \E callers \in {{1}, {1, 2}}, preset \in SUBSET Preset :
          ipm = [ callers |-> callers,
                  addrs   |-> {OwnAddr} \cup preset,
                  call    |-> [c \in callers |-> NoCall] ]
    /\ vr = <<>>
    /\ sm = <<>>
    /\ sock = <<>>
    /\ last = <<>>
    /\ env = [inject |-> 0, backlog |-> 0, sock |-> 0]
    /\ build = NoBuild
    /\ wire = NoWire

\* caller c calls AddIP(ip), DelIP(ip) or ListIPs()
IPMgrCall(c) ==
    /\ ipm.call[c].pc = "idle"
    /\ \E op \in {"AddIP", "DelIP", "ListIPs"}, ip \in IPMgrIPs :
          ipm' = [ipm EXCEPT !.call[c] =
                    [NoCall EXCEPT !.op = op,
                                   !.ip = IF op = "ListIPs" THEN <<>> ELSE ip,
                                   !.pc = "list",
                                   !.before = ipm.addrs,
                                   !.prev = ipm.call[c].prev]]
    /\ UNCHANGED <<sm, vr, sock, last, env, build, wire>>

Returns(call, ret) == [call EXCEPT !.pc = "done", !.ret = ret]

\* AddIP that does not look whether the address is there
AddIPList_noCheck(c) ==
    /\ ipm.call[c].pc = "list"
    /\ ipm.call[c].op = "AddIP"
    /\ ipm' = [ipm EXCEPT !.call[c].seen = ipm.addrs, !.call[c].pc = "modify"]
    /\ UNCHANGED <<sm, vr, sock, last, env, build, wire>>

\* AddIP: AddrList, and the return when the address is already there
AddIPList(c) ==
    /\ ipm.call[c].pc = "list"
    /\ ipm.call[c].op = "AddIP"
    /\ ipm' = IF Matching(ipm.addrs, ipm.call[c].ip) # {}
              THEN [ipm EXCEPT !.call[c] = Returns([@ EXCEPT !.seen = ipm.addrs], "nil")]
              ELSE [ipm EXCEPT !.call[c].seen = ipm.addrs, !.call[c].pc = "modify"]
    /\ UNCHANGED <<sm, vr, sock, last, env, build, wire>>

\* AddIP: AddrAdd of the address as a /32
AddIPAdd(c) ==
    /\ ipm.call[c].pc = "modify"
    /\ ipm.call[c].op = "AddIP"
    /\ LET res == AddrAdd(ipm.addrs, Addr(ipm.call[c].ip, 32))
       IN  ipm' = [ipm EXCEPT
                     !.addrs = res.addrs,
                     !.call[c] = Returns(@, IF res.err = "" THEN "nil"
                                                           ELSE "failed to add IP")]
    /\ UNCHANGED <<sm, vr, sock, last, env, build, wire>>

\* DelIP: AddrList, and the return when the address is not there
DelIPList(c) ==
    /\ ipm.call[c].pc = "list"
    /\ ipm.call[c].op = "DelIP"
    /\ ipm' = IF Matching(ipm.addrs, ipm.call[c].ip) = {}
              THEN [ipm EXCEPT !.call[c] = Returns([@ EXCEPT !.seen = ipm.addrs], "nil")]
              ELSE [ipm EXCEPT !.call[c].seen = ipm.addrs, !.call[c].pc = "modify"]
    /\ UNCHANGED <<sm, vr, sock, last, env, build, wire>>

\* DelIP: AddrDel of the first entry of the listing that matches
DelIPDel(c) ==
    /\ ipm.call[c].pc = "modify"
    /\ ipm.call[c].op = "DelIP"
    /\ \E a \in Matching(ipm.call[c].seen, ipm.call[c].ip) :
          LET res == AddrDel(ipm.addrs, a)
          IN  ipm' = [ipm EXCEPT
                        !.addrs = res.addrs,
                        !.call[c] = Returns(@, IF res.err = "" THEN "nil"
                                                              ELSE "failed to delete IP")]
    /\ UNCHANGED <<sm, vr, sock, last, env, build, wire>>

\* ListIPs: the address of every entry of AddrList
ListIPs(c) ==
    /\ ipm.call[c].pc = "list"
    /\ ipm.call[c].op = "ListIPs"
    /\ ipm' = [ipm EXCEPT !.call[c] =
                 Returns([@ EXCEPT !.seen = ipm.addrs,
                                   !.out = [a \in ipm.addrs |-> a.ip]], "nil")]
    /\ UNCHANGED <<sm, vr, sock, last, env, build, wire>>

\* the caller has the result and is ready for its next call
IPMgrReturn(c) ==
    /\ ipm.call[c].pc = "done"
    /\ ipm' = [ipm EXCEPT !.call[c] =
                 [NoCall EXCEPT !.prev = [op  |-> ipm.call[c].op,
                                          ip  |-> ipm.call[c].ip,
                                          ret |-> ipm.call[c].ret]]]
    /\ UNCHANGED <<sm, vr, sock, last, env, build, wire>>

IPMgrNext ==
    \/ \E c \in ipm.callers : IPMgrCall(c)
    \/ \E c \in ipm.callers : AddIPList(c)
    \/ \E c \in ipm.callers : AddIPAdd(c)
    \/ \E c \in ipm.callers : DelIPList(c)
    \/ \E c \in ipm.callers : DelIPDel(c)
    \/ \E c \in ipm.callers : ListIPs(c)
    \/ \E c \in ipm.callers : IPMgrReturn(c)

IPMgrSpec == IPMgrInit /\ [][IPMgrNext]_vars

\* the entries of the table that bind ip
Bindings(ip) == Matching(ipm.addrs, ip)

\* the calls are made one after another: there is one caller
Sequential == ipm.callers = {1}

\* caller c has the result of a call of op
Done(c, op) == ipm.call[c].pc = "done" /\ ipm.call[c].op = op

\* C19: in a sequence of calls made one after another, AddIP of an address
\* that is on the interface succeeds and leaves exactly one binding of it,
\* DelIP of an address that is not on the interface succeeds and changes
\* nothing, after AddIP(ip) ListIPs contains ip and after DelIP(ip) it does
\* not
C19_Idempotent ==
    Sequential =>
      \A c \in ipm.callers :
        LET call == ipm.call[c]
            listed == { call.out[a] : a \in DOMAIN call.out }
        IN  /\ Done(c, "AddIP") =>
                 /\ call.ret = "nil"
                 /\ Cardinality(Bindings(call.ip)) = 1
                 /\ Matching(call.before, call.ip) # {} => ipm.addrs = call.before
            /\ Done(c, "DelIP") =>
                 /\ call.ret = "nil"
                 /\ Bindings(call.ip) = {}
                 /\ Matching(call.before, call.ip) = {} => ipm.addrs = call.before
            /\ Done(c, "ListIPs") =>
                 /\ call.ret = "nil"
                 /\ call.prev.op = "AddIP" => call.prev.ip \in listed
                 /\ call.prev.op = "DelIP" => call.prev.ip \notin listed

\* AddIP of an address that was on the interface under another prefix has
\* returned, and before it the same caller had removed the other address
C19_Witness ==
    /\ Sequential
    /\ Done(1, "AddIP")
    /\ ipm.call[1].ip = <<10, 0, 0, 101>>
    /\ ipm.call[1].before = {OwnAddr, Addr(<<10, 0, 0, 101>>, 24)}
    /\ ipm.call[1].prev = [op |-> "DelIP", ip |-> <<10, 0, 0, 100>>, ret |-> "nil"]

\* C20: when two callers call AddIP and DelIP on the same address at the
\* same time, in every interleaving of their list and modify steps each call
\* returns success and the table holds the address at most once
C20_ConcurrentSafe ==
    ipm.callers = {1, 2} =>
      /\ \A c \in ipm.callers :
            ipm.call[c].pc = "done" => ipm.call[c].ret = "nil"
      /\ \A ip \in IPMgrIPs : Cardinality(Bindings(ip)) <= 1

----------------------------------------------------------------------------
(* Packet codec.  A buffer is a sequence of bytes; buf[1] is byte 0 of the  *)
(* source.  A Packet here has the fields of NewPacket and the three the     *)
(* state machine never sets: authType, authData (nil is the empty          *)
(* sequence) and checksum.                                                  *)

VRRPv3 == 3

FullPacket(version, vrid, priority, ips, authType, advInt, authData) ==
    [authType |-> authType, advInt |-> advInt, authData |-> authData, checksum |-> 0]
        @@ NewPacket(version, vrid, priority, ips, <<>>)

Zeros(n) == [i \in 1..n |-> 0]

\* net.IP.To16: the 16-byte form of an address
To16(ip) == IF Len(ip) = 4 THEN V4InV6Prefix \o ip ELSE ip

\* the bytes the loop over p.IPAddresses writes from offset 8 on
RECURSIVE marshalIPs(_)
marshalIPs(ips) ==
    IF ips = <<>> THEN <<>>
    ELSE (IF To4(Head(ips)) # <<>> THEN To4(Head(ips)) ELSE To16(Head(ips)))
            \o marshalIPs(Tail(ips))

\* the sum of the big-endian 16-bit words of data, a last odd byte counting
\* as the high byte of a word; the uint32 of the source cannot overflow on a
\* buffer of fewer than 65536 bytes
RECURSIVE sumWords(_, _)
sumWords(data, sum) ==
    IF data = <<>> THEN sum
    ELSE IF Len(data) = 1 THEN sum + data[1] * 256
    ELSE sumWords(SubSeq(data, 3, Len(data)), sum + data[1] * 256 + data[2])

\* for (sum >> 16) > 0 { sum = (sum & 0xFFFF) + (sum >> 16) }
RECURSIVE fold(_)
fold(sum) == IF sum \div 65536 > 0 THEN fold((sum % 65536) + (sum \div 65536)) ELSE sum

\* calculateChecksum that does not fold the carries back
calculateChecksum_noFold(data) ==
    LET temp == [i \in 1..Len(data) |-> IF i \in {7, 8} THEN 0 ELSE data[i]]
    IN  65535 - (sumWords(temp, 0) % 65536)

\* uint16(^sum) is 0xFFFF minus the low 16 bits of sum
calculateChecksum(data) ==
    LET temp == [i \in 1..Len(data) |-> IF i \in {7, 8} THEN 0 ELSE data[i]]
    IN  65535 - (fold(sumWords(temp, 0)) % 65536)

\* Marshal that appends the 8 bytes of auth data only when the packet has them
Marshal_authOnlyWhenGiven(p) ==
    IF p.version # VRRPv2 /\ p.version # VRRPv3
    THEN [err |-> "unsupported VRRP version", buf |-> <<>>]
    ELSE
      LET head == << ((p.version * 16) % 256) + (p.type % 16), p.vrid, p.priority, p.count,
                     IF p.version = VRRPv2 THEN p.authType ELSE 0,
                     IF p.version = VRRPv2 THEN p.advInt ELSE p.advInt % 256,
                     0, 0 >>
          auth == IF p.version = VRRPv2 /\ Len(p.authData) = 8 THEN p.authData ELSE <<>>
          buf  == head \o marshalIPs(p.ips) \o auth
          checksum == calculateChecksum(buf)
      IN  [err |-> "",
           buf |-> [buf EXCEPT ![7] = checksum \div 256, ![8] = checksum % 256]]

\* Marshal: buf[4] of version 3 is (AdvInterval >> 4) & 0xF0, which is 0 for
\* a uint8; the 8 bytes after the addresses of version 2 are the auth data
\* if it has 8 bytes and stay zero otherwise
Marshal(p) ==
    IF p.version # VRRPv2 /\ p.version # VRRPv3
    THEN [err |-> "unsupported VRRP version", buf |-> <<>>]
    ELSE
      LET head == << ((p.version * 16) % 256) + (p.type % 16), p.vrid, p.priority, p.count,
                     IF p.version = VRRPv2 THEN p.authType
                                           ELSE ((p.advInt \div 16) \div 16) * 16,
                     IF p.version = VRRPv2 THEN p.advInt ELSE p.advInt % 256,
                     0, 0 >>
          auth == IF p.version # VRRPv2 THEN <<>>
                  ELSE IF Len(p.authData) = 8 THEN p.authData
                  ELSE Zeros(8)
          buf  == head \o marshalIPs(p.ips) \o auth
          checksum == calculateChecksum(buf)
      IN  [err |-> "",
           buf |-> [buf EXCEPT ![7] = checksum \div 256, ![8] = checksum % 256]]

\* a Packet before Unmarshal fills it: &Packet{}
EmptyPacket == FullPacket(0, 0, 0, <<>>, 0, 0, <<>>)

\* the loop of Unmarshal over the addresses; offset counts from 0 as in the
\* source, acc holds the addresses read so far
RECURSIVE unmarshalIPs(_, _, _, _, _)
unmarshalIPs(data, version, n, offset, acc) ==
    IF n = 0 THEN [err |-> "", ips |-> acc, offset |-> offset]
    ELSE IF version = VRRPv2 \/ (version = VRRPv3 /\ Len(data) - offset >= 4)
    THEN IF offset + 4 > Len(data)
         THEN [err |-> "insufficient data for IPv4 address",
               ips |-> acc \o [i \in 1..n |-> <<>>], offset |-> offset]
         ELSE unmarshalIPs(data, version, n - 1, offset + 4,
                           Append(acc, SubSeq(data, offset + 1, offset + 4)))
    ELSE IF offset + 16 > Len(data)
         THEN [err |-> "insufficient data for IPv6 address",
               ips |-> acc \o [i \in 1..n |-> <<>>], offset |-> offset]
         ELSE unmarshalIPs(data, version, n - 1, offset + 16,
                           Append(acc, SubSeq(data, offset + 1, offset + 16)))

\* Unmarshal that leaves AuthData alone
Unmarshal_skipsAuth(p, data) ==
    IF Len(data) < 8 THEN [err |-> "packet too short", pkt |-> p]
    ELSE
      LET version == (data[1] \div 16) % 16
          read    == unmarshalIPs(data, version, data[4], 8, <<>>)
          q == [p EXCEPT
                  !.version  = version,
                  !.type     = data[1] % 16,
                  !.vrid     = data[2],
                  !.priority = data[3],
                  !.count    = data[4],
                  !.authType = IF version = VRRPv2 THEN data[5] ELSE @,
                  !.advInt   = IF version = VRRPv2 THEN data[6]
                               ELSE (((data[5] % 16) * 256) % 256) + data[6],
                  !.checksum = data[7] * 256 + data[8],
                  !.ips      = read.ips]
      IN  [err |-> read.err, pkt |-> q]

\* Unmarshal into p: the fields are set in the order of the source, an
\* error leaves p with what was set before it
Unmarshal(p, data) ==
    IF Len(data) < 8 THEN [err |-> "packet too short", pkt |-> p]
    ELSE
      LET version == (data[1] \div 16) % 16
          read    == unmarshalIPs(data, version, data[4], 8, <<>>)
          q == [p EXCEPT
                  !.version  = version,
                  !.type     = data[1] % 16,
                  !.vrid     = data[2],
                  !.priority = data[3],
                  !.count    = data[4],
                  !.authType = IF version = VRRPv2 THEN data[5] ELSE @,
                  !.advInt   = IF version = VRRPv2 THEN data[6]
                               ELSE (((data[5] % 16) * 256) % 256) + data[6],
                  !.checksum = data[7] * 256 + data[8],
                  !.ips      = read.ips]
      IN  IF read.err # "" THEN [err |-> read.err, pkt |-> q]
          ELSE IF version = VRRPv2 /\ read.offset + 8 <= Len(data)
          THEN [err |-> "",
                pkt |-> [q EXCEPT !.authData =
                                     SubSeq(data, read.offset + 1, read.offset + 8)]]
          ELSE [err |-> "", pkt |-> q]

----------------------------------------------------------------------------
(* A Packet is marshalled and the buffer is unmarshalled into an empty      *)
(* Packet.                                                                  *)

MaxIPs == 2    \* addresses in a Packet

\* addresses in their 4-byte form, and one in the 16-byte form ParseIP gives
CodecIPs ==
    { <<10, 0, 0, 100>>, <<255, 255, 255, 255>>, V4InV6Prefix \o <<192, 168, 1, 100>> }

AuthDatas == { <<>>, <<1, 2, 3, 4, 5, 6, 7, 8>>, [i \in 1..8 |-> 255], <<1, 2, 3>> }

CodecPackets ==
    { FullPacket(v, id, p, ips, at, ai, ad) :
        v \in {VRRPv2, VRRPv3, 99}, id \in {1, 255}, p \in {0, 100, 255},
        ips \in SeqsUpTo(CodecIPs, MaxIPs), at \in {0, 1}, ai \in {1, 255},
        ad \in AuthDatas }

CodecInit ==
    /\ \E p \in CodecPackets :
          wire = [stage |-> "packet", p |-> p, buf |-> <<>>, err |-> "", q |-> EmptyPacket]
    /\ vr = <<>>
    /\ sm = <<>>
    /\ sock = <<>>
    /\ last = <<>>
    /\ env = [inject |-> 0, backlog |-> 0, sock |-> 0]
    /\ ipm = NoIPManager
    /\ build = NoBuild

\* data, err := p.Marshal()
CodecMarshal ==
    /\ wire.stage = "packet"
    /\ LET res == Marshal(wire.p)
       IN  wire' = [wire EXCEPT !.stage = IF res.err = "" THEN "marshalled" ELSE "failed",
                                !.buf = res.buf, !.err = res.err]
    /\ UNCHANGED <<sm, vr, sock, last, env, ipm, build>>

\* err = decoded.Unmarshal(data)
CodecUnmarshal ==
    /\ wire.stage = "marshalled"
    /\ LET res == Unmarshal(EmptyPacket, wire.buf)
       IN  wire' = [wire EXCEPT !.stage = IF res.err = "" THEN "unmarshalled" ELSE "failed",
                                !.q = res.pkt, !.err = res.err]
    /\ UNCHANGED <<sm, vr, sock, last, env, ipm, build>>

CodecNext ==
    \/ CodecMarshal
    \/ CodecUnmarshal

CodecSpec == CodecInit /\ [][CodecNext]_vars

\* a valid VRRPv2 packet: version 2, type 1, IPv4 addresses, their number in count
ValidV2(p) ==
    /\ p.version = VRRPv2
    /\ p.type = TypeAdvertisement
    /\ p.count = Len(p.ips)
    /\ \A i \in DOMAIN p.ips : To4(p.ips[i]) # <<>>

Marshalled == wire.stage \in {"marshalled", "unmarshalled"}

\* C21: for every valid VRRPv2 packet P, Marshal succeeds, Unmarshal of the
\* buffer succeeds and gives the version, type, VRID, priority, count,
\* advertisement interval and addresses of P, and the auth data of P when P
\* has 8 bytes of it
C21_RoundTrip ==
    (wire.stage # "none" /\ ValidV2(wire.p)) =>
        /\ wire.stage # "failed"
        /\ wire.stage = "unmarshalled" =>
              /\ wire.q.version = wire.p.version
              /\ wire.q.type = wire.p.type
              /\ wire.q.vrid = wire.p.vrid
              /\ wire.q.priority = wire.p.priority
              /\ wire.q.count = wire.p.count
              /\ wire.q.advInt = wire.p.advInt
              /\ Len(wire.q.ips) = Len(wire.p.ips)
              /\ \A i \in DOMAIN wire.p.ips : To4(wire.q.ips[i]) = To4(wire.p.ips[i])
              /\ Len(wire.p.authData) = 8 => wire.q.authData = wire.p.authData

\* a packet with two addresses, one given in the 16-byte form, and 8 bytes
\* of auth data has gone through Marshal and Unmarshal
C21_Witness ==
    /\ wire.stage = "unmarshalled"
    /\ ValidV2(wire.p)
    /\ wire.p.ips = << V4InV6Prefix \o <<192, 168, 1, 100>>, <<10, 0, 0, 100>> >>
    /\ wire.p.authData = <<1, 2, 3, 4, 5, 6, 7, 8>>
    /\ wire.p.authType = 1

\* the folded one's-complement sum of all 16-bit words of a buffer
OnesComplementSum(buf) == fold(sumWords(buf, 0))

\* C22: the folded 16-bit one's-complement sum of every buffer Marshal
\* produces, checksum field included, is 0xFFFF, and the checksum Unmarshal
\* reads back is bytes 6-7 of the buffer
C22_Checksum ==
    Marshalled =>
        /\ OnesComplementSum(wire.buf) = 65535
        /\ wire.stage = "unmarshalled" => wire.q.checksum = wire.buf[7] * 256 + wire.buf[8]

\* a buffer whose words sum to more than 16 bits has been read back
C22_Witness ==
    /\ wire.stage = "unmarshalled"
    /\ sumWords(wire.buf, 0) > 65535
    /\ wire.q.checksum # 0

\* C23: a marshalled VRRPv2 packet with N IPv4 addresses has 8 + 4N bytes
\* when it carries no auth data and 8 + 4N + 8 bytes when it carries 8 bytes
\* of auth data
C23_Length ==
    (Marshalled /\ ValidV2(wire.p)) =>
        Len(wire.buf) = 8 + 4 * Len(wire.p.ips)
                          + (IF Len(wire.p.authData) = 8 THEN 8 ELSE 0)

\* C23 as the code has it: a marshalled VRRPv2 packet with N IPv4 addresses
\* has 8 + 4N + 8 bytes whether or not it carries auth data; without auth
\* data the last 8 bytes are zero
C23_LengthWithAuthField ==
    (Marshalled /\ ValidV2(wire.p)) =>
        /\ Len(wire.buf) = 8 + 4 * Len(wire.p.ips) + 8
        /\ Len(wire.p.authData) # 8 =>
              SubSeq(wire.buf, Len(wire.buf) - 7, Len(wire.buf)) = Zeros(8)

\* a packet with two addresses and no auth data was marshalled into 24 bytes
C23_Witness ==
    /\ wire.stage = "marshalled"
    /\ ValidV2(wire.p)
    /\ Len(wire.p.ips) = 2
    /\ wire.p.authData = <<>>
    /\ Len(wire.buf) = 24

----------------------------------------------------------------------------
(* Timers and states *)

\* C24: in every reachable state, in Backup the advertisement timer is off,
\* in Master the master-down timer is off, and in Init both timers are off
C24_TimerExclusivity ==
    \A r \in Routers :
        /\ sm[r].state = Backup => sm[r].advertTimer = NilTicker
        /\ sm[r].state = Master => sm[r].masterDownTimer = NilTimer
        /\ sm[r].state = StateInit =>
              sm[r].advertTimer = NilTicker /\ sm[r].masterDownTimer = NilTimer

\* a Backup whose master-down timer expired has become Master: its ticker
\* runs and its master-down timer is gone
C24_Witness ==
    \E r \in Routers :
        /\ last[r].op = "event"
        /\ last[r].ev = EventMasterDown
        /\ last[r].from = Backup
        /\ sm[r].state = Master
        /\ sm[r].advertTimer.st = "on"
        /\ sm[r].masterDownTimer = NilTimer

\* router r goes from Backup to Master in this step
Promoted(r) == sm[r].state = Backup /\ sm'[r].state = Master

\* C25: a Backup that handled an advertisement of its VRID with a non-zero
\* priority not below its own does not become Master before a full
\* master-down interval has passed since: the timer the advertisement armed
\* is not still running when the Backup is promoted, and an expiry from
\* before the advertisement promotes nobody
C25_FullIntervalAfterAdvert ==
    [][\A r \in Routers : Promoted(r) => sm[r].masterDownTimer.st # "armed"]_vars

\* C26: late timer fires are ignored: a master-down expiry handled in a
\* state other than Backup changes no state, an advertisement tick handled
\* in a state other than Master sends nothing, and every advertisement that
\* is put on the send queue is put there with the state Master
C26_LateFiresIgnored ==
    [][\A r \in Routers :
          /\ (DriverMasterDownTimer(r) /\ sm[r].state # Backup) =>
                 /\ sm'[r].state = sm[r].state
                 /\ sm'[r].eventCh = sm[r].eventCh
          /\ (DriverEvent(r) /\ Head(sm[r].eventCh) = EventMasterDown
                             /\ sm[r].state # Backup) =>
                 sm'[r] = [sm[r] EXCEPT !.eventCh = Tail(@)]
          /\ (DriverAdvertTimer(r) /\ sm[r].state # Master) =>
                 sm'[r].sendCh = sm[r].sendCh
          /\ (Alive(r) /\ Len(sm'[r].sendCh) > Len(sm[r].sendCh)) =>
                 sm'[r].state = Master]_vars

\* a MasterDown event was handled by a router that was Master already
C26_Witness ==
    \E r \in Routers :
        /\ last[r].op = "event"
        /\ last[r].ev = EventMasterDown
        /\ last[r].from = Master
        /\ sm[r].state = Master

\* C27: a Backup that handles an advertisement of its VRID with a non-zero
\* priority below its own ignores it: it stays Backup and its master-down
\* timer is neither reset nor stopped; no Backup becomes Master by handling
\* a packet
C27_BackupIgnoresLower ==
    [][\A r \in Routers :
          /\ (/\ Handles(r)
              /\ sm[r].state = Backup
              /\ OwnAdvert(r, Handled(r))
              /\ Handled(r).priority < sm[r].priority)
             => sm'[r] = Ignored(r)
          /\ (Handles(r) /\ sm[r].state = Backup) => sm'[r].state = Backup]_vars

\* a Backup with part of its interval gone has handled a weaker advertisement
C27_Witness ==
    \E r \in Routers :
        /\ last[r].op = "packet"
        /\ last[r].from = Backup
        /\ last[r].pkt.vrid = sm[r].vrid
        /\ last[r].pkt.priority # 0
        /\ last[r].pkt.priority < sm[r].priority
        /\ sm[r].state = Backup
        /\ sm[r].masterDownTimer.st = "armed"
        /\ sm[r].masterDownTimer.left < sm[r].masterDownInterval

----------------------------------------------------------------------------
(* Two routers built from Configs that differ only in Preempt, each started *)
(* on its own and fed the same packets and timer expiries in the same       *)
(* order.  build holds the Config, the state machine of the router built    *)
(* from it (m), the state machine of the router built from the Config with  *)
(* Preempt negated (t) and the number of packets and expiries fed so far.   *)
(* sendCh is not drained here, so it holds every advertisement emitted.     *)

MaxFeed == 4    \* packets and timer expiries fed to the two routers

TwinConfigs ==
    { Config(OwnVRID, p, "eth0", <<"10.0.0.100">>, 1, pre) :
        p \in Priorities, pre \in BOOLEAN }

Twin(cfg) == [cfg EXCEPT !.Preempt = ~@]

\* NewVirtualRouter(cfg) and Start: the state machine with Startup queued
Launch(cfg) ==
    LET router == NewVirtualRouter(cfg).router
    IN  [NewStateMachine(router.vrid, router.priority, router.ips, SourceIPOf(1), {})
           EXCEPT !.eventCh = <<EventStartup>>, !.run = "select"]

TwinInit ==
    /\ \E cfg \in TwinConfigs :
          build = [stage |-> "twins", cfg |-> cfg,
                   m |-> Launch(cfg), t |-> Launch(Twin(cfg)), fed |-> 0]
    /\ vr = <<>>
    /\ sm = <<>>
    /\ sock = <<>>
    /\ last = <<>>
    /\ env = [inject |-> 0, backlog |-> 0, sock |-> 0]
    /\ ipm = NoIPManager
    /\ wire = NoWire

\* each driver handles the event at the head of its eventCh
TwinEvent ==
    /\ build.stage = "twins"
    /\ build.m.eventCh # <<>> \/ build.t.eventCh # <<>>
    /\ LET step(x) == IF x.eventCh # <<>>
                      THEN handleEvent([x EXCEPT !.eventCh = Tail(@)], Head(x.eventCh))
                      ELSE x
       IN  build' = [build EXCEPT !.m = step(@), !.t = step(@)]
    /\ UNCHANGED <<sm, vr, sock, last, env, ipm, wire>>

\* the same packet is handled by both drivers
TwinPacket ==
    /\ build.stage = "twins"
    /\ build.fed < MaxFeed
    /\ \E shape \in FrameShapes :
          build' = [build EXCEPT !.m = handlePacket(@, FrameOf(shape)),
                                 !.t = handlePacket(@, FrameOf(shape)),
                                 !.fed = @ + 1]
    /\ UNCHANGED <<sm, vr, sock, last, env, ipm, wire>>

\* the master-down timers expire and both drivers receive from their channels
TwinMasterDownTimer ==
    /\ build.stage = "twins"
    /\ build.fed < MaxFeed
    /\ build.m.masterDownTimer.st = "armed" \/ build.t.masterDownTimer.st = "armed"
    /\ LET step(x) == IF x.masterDownTimer.st = "armed" THEN onMasterDownTimer(x) ELSE x
       IN  build' = [build EXCEPT !.m = step(@), !.t = step(@), !.fed = @ + 1]
    /\ UNCHANGED <<sm, vr, sock, last, env, ipm, wire>>

\* the advertisement tickers tick and both drivers receive from their channels
TwinAdvertTimer ==
    /\ build.stage = "twins"
    /\ build.fed < MaxFeed
    /\ build.m.advertTimer.st = "on" \/ build.t.advertTimer.st = "on"
    /\ LET step(x) == IF x.advertTimer.st = "on" THEN onAdvertTimer(x) ELSE x
       IN  build' = [build EXCEPT !.m = step(@), !.t = step(@), !.fed = @ + 1]
    /\ UNCHANGED <<sm, vr, sock, last, env, ipm, wire>>

TwinNext ==
    \/ TwinEvent
    \/ TwinPacket
    \/ TwinMasterDownTimer
    \/ TwinAdvertTimer

TwinSpec == TwinInit /\ [][TwinNext]_vars

----------------------------------------------------------------------------
(* Priority-0 advertisements *)

\* the advertisement router r sends: its own VRID, priority and virtual IPs
Advertisement(r) ==
    NewPacket(VRRPv2, sm[r].vrid, sm[r].priority, sm[r].virtualIPs, sm[r].srcIP)

----------------------------------------------------------------------------
(* Transitions whose calls of the IP manager fail *)

\* the step of the driver of router r is one that calls transition(target)
\* from another state
Attempts(r, target) ==
    /\ sm[r].state # target
    /\ \/ /\ DriverEvent(r)
          /\ Head(sm[r].eventCh) = EventStartup
          /\ target = IF sm[r].priority = OwnerPriority THEN Master ELSE Backup
       \/ /\ DriverEvent(r)
          /\ Head(sm[r].eventCh) = EventMasterDown
          /\ sm[r].state = Backup
          /\ target = Master
       \/ /\ DriverEvent(r)
          /\ Head(sm[r].eventCh) = EventShutdown
          /\ target = StateInit
       \/ /\ Handles(r)
          /\ sm[r].state = Master
          /\ OwnAdvert(r, Handled(r))
          /\ Handled(r).priority > sm[r].priority
          /\ target = Backup
       \/ /\ DriverCtxDone(r) \/ DriverStop(r)
          /\ target = StateInit

\* a call of addIP or delIP that transition(target) makes returns an error
AddFails(r, target) ==
    /\ target = Master
    /\ \E i \in DOMAIN sm[r].virtualIPs : addIP(sm[r], sm[r].virtualIPs[i]).err
DelFails(r, target) ==
    /\ sm[r].state = Master \/ target = StateInit
    /\ \E i \in DOMAIN sm[r].virtualIPs : delIP(sm[r], sm[r].virtualIPs[i]).err

\* C30: a transition in which an add or a remove of the IP manager fails is
\* carried through: the state becomes the target, the timer of the state left
\* is stopped and the timer of the target is armed, an advertisement is put
\* on the send queue on entering Master, and the observer is called once
\* with the old and the new state
C30_FailureDoesNotAbort ==
    [][\A r \in Routers : \A target \in {StateInit, Backup, Master} :
          (Attempts(r, target) /\ (AddFails(r, target) \/ DelFails(r, target)))
            => /\ sm'[r].state = target
               /\ target = Master =>
                     /\ sm'[r].masterDownTimer = NilTimer
                     /\ sm'[r].advertTimer.st = "on"
                     /\ sm'[r].sendCh = Append(sm[r].sendCh, Advertisement(r))
               /\ target = Backup =>
                     /\ sm'[r].advertTimer = NilTicker
                     /\ sm'[r].masterDownTimer.st = "armed"
                     /\ sm'[r].sendCh = sm[r].sendCh
               /\ target = StateInit =>
                     /\ sm'[r].advertTimer = NilTicker
                     /\ sm'[r].masterDownTimer = NilTimer
               /\ last'[r].calls = << <<sm[r].state, target>> >>]_vars

\* a Backup became Master although none of its addresses could be added
C30_Witness ==
    \E r \in Routers :
        /\ Alive(r)
        /\ last[r].op = "event"
        /\ last[r].ev = EventMasterDown
        /\ last[r].calls = << <<Backup, Master>> >>
        /\ sm[r].state = Master
        /\ sm[r].virtualIPs # <<>>
        /\ sm[r].bound = {}
        /\ sm[r].advertTimer.st = "on"

----------------------------------------------------------------------------
(* A socket whose read fails: the program of Spec, and a ReadFrom that      *)
(* returns an error that is neither a timeout nor EINTR                     *)

\* ReceivePackets returns the error of ReadFrom; recvLoop logs it and returns
RecvLoopReadError(r) ==
    /\ Alive(r)
    /\ vr[r].recvLoop = "read"
    /\ vr' = [vr EXCEPT ![r].recvLoop = "done"]
    /\ UNCHANGED <<sm, sock, last, env, ipm, build, wire>>

FaultNext ==
    \/ \E r \in Routers : Start(r)
    \/ \E r \in Routers : StartNetworkError(r)
    \/ \E r \in Routers : StopEnter(r)
    \/ \E r \in Routers : StopStateMachine(r)
    \/ \E r \in Routers : StopCancel(r)
    \/ \E r \in Routers : StopWait(r)
    \/ \E r \in Routers : StopClose(r)
    \/ \E r \in Routers : SendLoopSend(r)
    \/ \E r \in Routers : SendLoopDone(r)
    \/ \E r \in Routers : RecvLoopCheck(r)
    \/ \E r \in Routers : RecvLoopRead(r)
    \/ \E r \in Routers : RecvLoopReadError(r)
    \/ \E r \in Routers : DriverCtxDone(r)
    \/ \E r \in Routers : DriverStop(r)
    \/ \E r \in Routers : DriverEvent(r)
    \/ \E r \in Routers : DriverPacket(r)
    \/ \E r \in Routers : DriverMasterDownTimer(r)
    \/ \E r \in Routers : DriverAdvertTimer(r)
    \/ \E r \in Routers : FrameArrives(r)
    \/ \E r \in Routers : MasterDownTimerFires(r)
    \/ \E r \in Routers : AdvertTimerTicks(r)

FaultSpec == Init /\ [][FaultNext]_vars

\* the receive worker of router r has returned and nothing was cancelled
Deaf(r) == vr[r].running /\ vr[r].recvLoop = "done" /\ vr[r].ctx = "live"

\* C31: when the receive worker ends on a read error the cancellation reaches
\* the other workers and the state machine: a running router is not left with
\* a live context and no receiver, so no Backup makes itself Master while
\* the router cannot hear the advertisements of a Master
C31_CancelOnRecvError ==
    [][\A r \in Routers : Deaf(r) => ~Promoted(r)]_vars

----------------------------------------------------------------------------
(* One state machine under load: the receive worker hands over frames       *)
(* whether or not the driver has taken the earlier ones, the send worker    *)
(* takes advertisements whenever it gets to, the timers fire.  build holds  *)
(* the state machine, the kind of frame the segment carries, the step taken *)
(* last, the state machine as that step found it and the calls of the       *)
(* observer made in it.                                                     *)

\* frames of the segment: a priority-0 advertisement and the advertisement of
\* an address owner, both for the VRID of the router
LoadShapes == { <<OwnVRID, 0, GreaterSrc>>, <<OwnVRID, OwnerPriority, GreaterSrc>> }

LoadInit ==
    /\ \E p \in Priorities, shape \in LoadShapes :
          build = [stage |-> "load", m |-> Launch(ConfigOf(p)), shape |-> shape,
                   step |-> "start", before |-> Launch(ConfigOf(p)), calls |-> <<>>]
    /\ vr = <<>>
    /\ sm = <<>>
    /\ sock = <<>>
    /\ last = <<>>
    /\ env = [inject |-> 0, backlog |-> 0, sock |-> 0]
    /\ ipm = NoIPManager
    /\ wire = NoWire

\* what a step leaves in build
Load(step, res) ==
    [build EXCEPT !.m = Returned(res), !.step = step, !.before = build.m,
                  !.calls = res.notified]

\* recvLoop: a frame is read and handed to ProcessPacket
LoadProcess ==
    /\ build.stage = "load"
    /\ build' = Load("process", ProcessPacket(build.m, FrameOf(build.shape)))
    /\ UNCHANGED <<sm, vr, sock, last, env, ipm, wire>>

\* sendLoop: an advertisement is taken from sendCh and written
LoadSend ==
    /\ build.stage = "load"
    /\ build.m.sendCh # <<>>
    /\ build' = Load("send", [build.m EXCEPT !.sendCh = Tail(@)])
    /\ UNCHANGED <<sm, vr, sock, last, env, ipm, wire>>

LoadEvent ==
    /\ build.stage = "load"
    /\ build.m.run = "select"
    /\ build.m.eventCh # <<>>
    /\ build' = Load("event", handleEvent([build.m EXCEPT !.eventCh = Tail(@)],
                                          Head(build.m.eventCh)))
    /\ UNCHANGED <<sm, vr, sock, last, env, ipm, wire>>

LoadPacket ==
    /\ build.stage = "load"
    /\ build.m.run = "select"
    /\ build.m.recvCh # <<>>
    /\ build' = Load("packet", handlePacket([build.m EXCEPT !.recvCh = Tail(@)],
                                            Head(build.m.recvCh)))
    /\ UNCHANGED <<sm, vr, sock, last, env, ipm, wire>>

LoadMasterDownTimer ==
    /\ build.stage = "load"
    /\ build.m.run = "select"
    /\ build.m.masterDownTimer.st = "armed"
    /\ build' = Load("masterDownTimer", onMasterDownTimer(build.m))
    /\ UNCHANGED <<sm, vr, sock, last, env, ipm, wire>>

LoadAdvertTimer ==
    /\ build.stage = "load"
    /\ build.m.run = "select"
    /\ build.m.advertTimer.st = "on"
    /\ build' = Load("advertTimer", onAdvertTimer(build.m))
    /\ UNCHANGED <<sm, vr, sock, last, env, ipm, wire>>

LoadNext ==
    \/ LoadProcess
    \/ LoadSend
    \/ LoadEvent
    \/ LoadPacket
    \/ LoadMasterDownTimer
    \/ LoadAdvertTimer

LoadSpec == LoadInit /\ [][LoadNext]_vars

\* C32: the receive queue and the send queue never hold more than 10
\* packets; ProcessPacket on a full receive queue and sendAdvertisement on a
\* full send queue leave the queue, and everything else, as it was, and the
\* driver goes back to its select; a queue with room takes the packet
C32_BoundedHandOff ==
    build.stage = "load" =>
        /\ Len(build.m.recvCh) <= ChanCap
        /\ Len(build.m.sendCh) <= ChanCap
        /\ (build.step = "process" /\ Len(build.before.recvCh) = ChanCap)
              => build.m = build.before
        /\ (build.step = "process" /\ Len(build.before.recvCh) < ChanCap)
              => build.m = [build.before EXCEPT
                              !.recvCh = Append(@, FrameOf(build.shape))]
        /\ (build.step = "advertTimer" /\ Len(build.before.sendCh) = ChanCap)
              => build.m = build.before
        /\ (build.step = "event" /\ Len(build.before.sendCh) = ChanCap)
              => /\ build.m.sendCh = build.before.sendCh
                 /\ build.m.run = "select"

\* a Master whose send queue is full has just taken a tick of its ticker,
\* while its receive queue is full as well
C32_Witness ==
    /\ build.stage = "load"
    /\ build.step = "advertTimer"
    /\ build.before.state = Master
    /\ Len(build.before.sendCh) = ChanCap
    /\ Len(build.m.recvCh) = ChanCap

----------------------------------------------------------------------------
(* The observer and the state changes *)

\* the step is one of the driver of router r
Drives(r) ==
    \/ DriverCtxDone(r)
    \/ DriverStop(r)
    \/ DriverEvent(r)
    \/ DriverPacket(r)
    \/ DriverMasterDownTimer(r)
    \/ DriverAdvertTimer(r)

\* C33: a step of the driver that changes the state calls the observer once,
\* in that step, with the state before and the state after; a step that
\* leaves the state calls no observer; and a stop or a cancellation taken in
\* Init, which asks for the current state, calls no observer and changes
\* nothing but the driver's return
C33_ObserverOnce ==
    [][\A r \in Routers :
          /\ (Drives(r) /\ sm'[r].state # sm[r].state)
                => last'[r].calls = << <<sm[r].state, sm'[r].state>> >>
          /\ (Drives(r) /\ sm'[r].state = sm[r].state)
                => last'[r].calls = <<>>
          /\ ((DriverCtxDone(r) \/ DriverStop(r)) /\ sm[r].state = StateInit)
                => sm'[r] = [sm[r] EXCEPT !.run = "exited"]]_vars

\* a Master has yielded and the observer was told (Master, Backup)
C33_Witness ==
    \E r \in Routers :
        /\ Alive(r)
        /\ last[r].op = "packet"
        /\ last[r].from = Master
        /\ last[r].calls = << <<Master, Backup>> >>
        /\ sm[r].state = Backup

\* C34: every event the driver sends to its own event queue is accepted by
\* the queue: the driver is never stopped in that send, with the queue full
\* and no one but itself to receive from it
C34_DriverNeverBlocks ==
    build.stage = "load" => build.m.run # "blocked"

\* Start on a router that is not running makes a new state machine
NewInstance(r) == Start(r) /\ ~vr[r].running

\* C35: the state of a state machine changes only from Init to Backup or,
\* with priority 255, to Master when Startup is handled, from Backup to
\* Master when a MasterDown event is handled, from Master to Backup when an
\* advertisement is handled, and to Init when the driver takes the stop or
\* the cancellation; and after the driver has returned it does not change
C35_AllowedChanges ==
    [][\A r \in Routers :
          ~NewInstance(r) =>
            /\ sm'[r].state # sm[r].state =>
                  \/ /\ sm[r].state = StateInit
                     /\ sm'[r].state = Backup
                     /\ sm[r].priority # OwnerPriority
                     /\ DriverEvent(r)
                     /\ Head(sm[r].eventCh) = EventStartup
                  \/ /\ sm[r].state = StateInit
                     /\ sm'[r].state = Master
                     /\ sm[r].priority = OwnerPriority
                     /\ DriverEvent(r)
                     /\ Head(sm[r].eventCh) = EventStartup
                  \/ /\ sm[r].state = Backup
                     /\ sm'[r].state = Master
                     /\ DriverEvent(r)
                     /\ Head(sm[r].eventCh) = EventMasterDown
                  \/ /\ sm[r].state = Master
                     /\ sm'[r].state = Backup
                     /\ Handles(r)
                     /\ OwnAdvert(r, Handled(r))
                  \/ /\ sm'[r].state = StateInit
                     /\ DriverCtxDone(r) \/ DriverStop(r)
            /\ sm[r].run = "exited" => sm'[r].state = sm[r].state]_vars

\* the driver of a Master took the cancellation, went to Init and returned
C35_Witness ==
    \E r \in Routers :
        /\ last[r].op = "ctx"
        /\ last[r].from = Master
        /\ last[r].calls = << <<Master, StateInit>> >>
        /\ sm[r].state = StateInit
        /\ sm[r].run = "exited"
        /\ vr[r].ret = "stopped"

----------------------------------------------------------------------------
(* Advertisements that change nothing *)

\* C36: a Master that handles an advertisement of its VRID with a priority
\* that is not 0 and is strictly lower than its own stays Master; its
\* timers, its queues (but for the packet taken from recvCh) and its VIPs
\* are as before
C36_MasterKeepsAgainstWeaker ==
    [][\A r \in Routers :
          (/\ Handles(r)
           /\ sm[r].state = Master
           /\ OwnAdvert(r, Handled(r))
           /\ Handled(r).priority < sm[r].priority)
          => /\ sm'[r].state = Master
             /\ sm'[r].advertTimer = sm[r].advertTimer
             /\ sm'[r].masterDownTimer = sm[r].masterDownTimer
             /\ sm'[r].sendCh = sm[r].sendCh
             /\ sm'[r].eventCh = sm[r].eventCh
             /\ sm'[r].recvCh = Tail(sm[r].recvCh)
             /\ sm'[r].bound = sm[r].bound
             /\ last'[r].calls = <<>>]_vars

C36_Witness ==
    \E r \in Routers :
        /\ last[r].op = "packet"
        /\ last[r].from = Master
        /\ last[r].pkt.vrid = sm[r].vrid
        /\ last[r].pkt.priority > 0
        /\ last[r].pkt.priority < sm[r].priority
        /\ sm[r].state = Master
        /\ sm[r].advertTimer.st = "on"

\* the packet is a copy of the advertisement router r sends
OwnCopy(r, pkt) ==
    /\ pkt.vrid = sm[r].vrid
    /\ pkt.priority = sm[r].priority
    /\ pkt.src = sm[r].srcIP

\* C37: a Master that handles a copy of its own advertisement, looped back
\* by the multicast, stays Master with the ticker running, no master-down
\* timer and its VIPs as before
C37_OwnAdvertisementIgnored ==
    [][\A r \in Routers :
          (Handles(r) /\ sm[r].state = Master /\ OwnCopy(r, Handled(r)))
          => /\ sm'[r].state = Master
             /\ sm'[r].advertTimer = sm[r].advertTimer
             /\ sm'[r].masterDownTimer = sm[r].masterDownTimer
             /\ sm'[r].bound = sm[r].bound]_vars

C37_Witness ==
    \E r \in Routers :
        /\ last[r].op = "packet"
        /\ last[r].from = Master
        /\ last[r].pkt = Advertisement(r)
        /\ sm[r].state = Master
        /\ sm[r].advertTimer.st = "on"

\* C38: a Backup that handles a priority-0 advertisement of its VRID stays
\* Backup and only queues PriorityZeroReceived: its master-down timer, armed
\* or expired, is as it was; and handling that event in Backup changes
\* nothing either
C38_BackupKeepsTimerOnPriorityZero ==
    [][\A r \in Routers :
          /\ (/\ Handles(r)
              /\ sm[r].state = Backup
              /\ Handled(r).vrid = sm[r].vrid
              /\ Handled(r).priority = 0)
             => /\ sm'[r].state = Backup
                /\ sm'[r].masterDownTimer = sm[r].masterDownTimer
                /\ sm'[r] = [Ignored(r) EXCEPT
                               !.eventCh = Append(@, EventPriorityZeroReceived)]
          /\ (/\ DriverEvent(r)
              /\ Head(sm[r].eventCh) = EventPriorityZeroReceived
              /\ sm[r].state = Backup)
             => sm'[r] = [sm[r] EXCEPT !.eventCh = Tail(@)]]_vars

\* a Backup whose timer had expired handled a priority-0 advertisement and
\* the timer is still the expired one
C38_Witness ==
    \E r \in Routers :
        /\ last[r].op = "packet"
        /\ last[r].from = Backup
        /\ last[r].pkt.vrid = sm[r].vrid
        /\ last[r].pkt.priority = 0
        /\ sm[r].state = Backup
        /\ sm[r].masterDownTimer.st = "fired"

----------------------------------------------------------------------------
(* The advertisements a state machine emits *)

\* C39: every advertisement the state machine of a Config has put on its
\* send queue carries the VRID and the priority of the Config, version 2,
\* type 1 and the virtual IPs of the Config in full, with count_ip_addrs
\* equal to the number of addresses
C39_AdvertisementFields ==
    Built =>
        \A i \in DOMAIN build.m.sendCh :
            LET pkt == build.m.sendCh[i]
            IN  /\ pkt.vrid = build.cfg.VRID
                /\ pkt.priority = build.cfg.Priority
                /\ pkt.version = VRRPv2
                /\ pkt.type = TypeAdvertisement
                /\ pkt.ips = build.router.ips
                /\ Len(pkt.ips) = Len(build.cfg.VirtualIPs)
                /\ pkt.count = Len(pkt.ips)

-----------------------------------------------------------------------------
(* The triggers of a running state machine *)

\* a MasterDown event waits in the event queue
MasterDownPending(m) ==
    \E i \in DOMAIN m.eventCh : m.eventCh[i] = EventMasterDown

\* the driver has been started and has not returned
DriverRunning(m) == m.run \in {"select", "blocked"}

\* a Backup has its master-down timer running, or expired with the expiry
\* still in the channel of the timer, or a MasterDown event queued; a Master
\* has its advertisement ticker
HasTrigger(m) ==
    /\ (DriverRunning(m) /\ m.state = Backup) =>
           \/ m.masterDownTimer.st \in {"armed", "fired"}
           \/ MasterDownPending(m)
    /\ m.state = Master => m.advertTimer.st = "on"

\* C40: a running state machine is never left without a trigger: while the
\* driver runs and the state is Backup the master-down timer is pending or a
\* MasterDown event is in the event queue, and in Master the advertisement
\* ticker is armed
C40_NeverWithoutTrigger ==
    build.stage = "load" => HasTrigger(build.m)

====
